---- MODULE Spec2Model ----
(***************************************************************************)
(* finsmar backend: the transaction sync engine (services/plaid_service.py) *)
(* as driven by the transaction phase of background_sync_job (app.py), the  *)
(* retention cleanup, and the account reconciliation handlers (routes.py).  *)
(*                                                                          *)
(* The database is modelled as committed tables plus, per SQLAlchemy        *)
(* session, a working copy holding the staged (flushed or pending) changes: *)
(* commit publishes the working copy, rollback resets it to the committed   *)
(* tables.                                                                  *)
(***************************************************************************)
EXTENDS Integers, Sequences, FiniteSets, TLC

VARIABLES
    today,      \* datetime.date.today(), as yyyymmdd
    accounts,   \* committed Account table
    txns,       \* committed Transaction table
    sess,       \* the job session's working copy of the Transaction table
    cursors,    \* committed PlaidItem.sync_cursor, per item_id
    feed,       \* upstream change feed: cursor -> pages the provider may answer
    queue,      \* items_to_sync not yet visited by the job's loop
    pc,         \* position of the job / of sync_transactions_for_item
    loc,        \* locals of the running sync_transactions_for_item
    page,       \* the response being processed
    obs,        \* observations of the running invocation (history)
    ideal,      \* the Transaction table if only whole pages were ever committed
    syncs,      \* number of invocations of sync_transactions_for_item begun
    hpc,        \* per request handler: position in a reconciliation handler
    hloc,       \* per request handler: locals and session working copy
    nreq,       \* number of reconciliation requests started
    hist,       \* the latest reconciliation request that was answered (history)
    invoked,    \* items handed to sync_transactions_for_item in this cycle, each with
                \* the result of the sync before it (history)
    job,        \* locals of background_sync_job's price phase
    prices,     \* committed MarketPrice table
    cache,      \* MarketDataService.CACHE
    now,        \* time.time() / the database clock, in seconds
    mkt,        \* the latest price call: what it returned and what it cost (history)
    inp,        \* what a handler or pure function is given: arguments, provider answers
    out,        \* its result, or the locals and response of the running handler
    plaid_items, \* PlaidItem rows as exchange_public_token writes them (the sync
                \* engine's specifications keep the items' cursors in cursors)
    scheduler   \* the BackgroundScheduler: its job, what is due, what is executing

syncVars == <<today, accounts, txns, sess, cursors, feed, queue, pc, loc, page,
              obs, ideal, syncs, invoked>>
reconVars == <<accounts, hpc, hloc, nreq, hist>>
auxVars == <<job, prices, cache, now, mkt, inp, out, plaid_items, scheduler>>
vars == <<today, accounts, txns, sess, cursors, feed, queue, pc, loc, page,
          obs, ideal, syncs, hpc, hloc, nreq, hist, invoked, job, prices, cache,
          now, mkt, inp, out, plaid_items, scheduler>>

----------------------------------------------------------------------------
(* Bounds *)

MaxSyncs == 2           \* invocations of sync_transactions_for_item explored
MaxPagesPerSync == 2    \* pages one invocation may fetch (cap on has_more)
MaxRequests == 3        \* reconciliation requests explored
MaxCategoryLen == 3     \* tokens in a provider category hierarchy

----------------------------------------------------------------------------
(* Dates: yyyymmdd integers, compared with < like datetime.date *)

MkDate(y, m, d) == y * 10000 + m * 100 + d
YearOf(dt) == dt \div 10000
MonthOf(dt) == (dt \div 100) % 100
DayOf(dt) == dt % 100

IsLeap(y) == (y % 4 = 0 /\ y % 100 # 0) \/ y % 400 = 0

DaysInMonth(y, m) ==
    IF m = 2 THEN (IF IsLeap(y) THEN 29 ELSE 28)
    ELSE IF m \in {4, 6, 9, 11} THEN 30 ELSE 31

\* dt - relativedelta(months=n): month arithmetic, day clipped to the month's end
MinusMonths(dt, n) ==
    LET total == YearOf(dt) * 12 + (MonthOf(dt) - 1) - n
        y == total \div 12
        m == (total % 12) + 1
        d == IF DayOf(dt) > DaysInMonth(y, m) THEN DaysInMonth(y, m) ELSE DayOf(dt)
    IN  MkDate(y, m, d)

ReplaceDay(dt, d) == MkDate(YearOf(dt), MonthOf(dt), d)

RetentionMonths == 5

\* five_months_ago of cleanup_old_transactions
WrongCutoff(t) == MinusMonths(t, RetentionMonths)
Cutoff(t) == ReplaceDay(MinusMonths(t, RetentionMonths), 1)

----------------------------------------------------------------------------
(* Category mapping *)

DefaultBucket == "Miscellaneous"

PLAID_CATEGORY_TO_BUDGET_BUCKET ==
    [k \in {"Food and Drink", "Travel", "Transfer", "Payment", "Shops",
            "Recreation", "Service", "Utilities", "Rent", "Mortgage",
            "Payroll", "Deposit", "Interest Earned", "_DEFAULT_"} |->
        CASE k = "Food and Drink" -> "Food & Drink"
          [] k = "Travel" -> "Travel"
          [] k = "Transfer" -> "Transfers"
          [] k = "Payment" -> "Bills & Utilities"
          [] k = "Shops" -> "Shopping"
          [] k = "Recreation" -> "Entertainment"
          [] k = "Service" -> "Services"
          [] k = "Utilities" -> "Bills & Utilities"
          [] k = "Rent" -> "Housing"
          [] k = "Mortgage" -> "Housing"
          [] k = "Payroll" -> "Income"
          [] k = "Deposit" -> "Income"
          [] k = "Interest Earned" -> "Income"
          [] OTHER -> DefaultBucket]

\* A record's category: the key may be absent, hold null, or hold a list.
CatAbsent == [kind |-> "absent", tokens |-> <<>>]
CatNull == [kind |-> "null", tokens |-> <<>>]
CatList(ts) == [kind |-> "list", tokens |-> ts]

\* line 29: primary = plaid_categories[0]
LastToken(tokens) == tokens[Len(tokens)]
PrimaryToken(tokens) == tokens[1]

\* txn_data.get('category') is falsy for an absent key, null and the empty list
_map_category(cat) ==
    IF cat.kind # "list" \/ cat.tokens = <<>> THEN PLAID_CATEGORY_TO_BUDGET_BUCKET["_DEFAULT_"]
    ELSE IF PrimaryToken(cat.tokens) \in DOMAIN PLAID_CATEGORY_TO_BUDGET_BUCKET
         THEN PLAID_CATEGORY_TO_BUDGET_BUCKET[PrimaryToken(cat.tokens)]
         ELSE PLAID_CATEGORY_TO_BUDGET_BUCKET["_DEFAULT_"]

\* Transaction(...) of an added record evaluates get('category', [None])[0] and
\* get('category', [])[-1]: TypeError on null, IndexError on absent or empty
AddedRaises(cat) == cat.kind \in {"absent", "null"} \/ cat.tokens = <<>>

\* the modified branch evaluates get('category', [old])[0] and [...][-1]
ModifiedRaises(cat) == cat.kind = "null" \/ (cat.kind = "list" /\ cat.tokens = <<>>)

----------------------------------------------------------------------------
(* Tables *)

NULL == "<null>"    \* a NULL column / Python None where a string is expected

\* the Account rows the transaction sync runs against (Account is not written
\* by sync_transactions_for_item)
SyncAccounts ==
    {[id |-> 1, external_id |-> "acc1", source |-> "Plaid", name |-> "Checking",
      balance |-> 1, account_type |-> "depository", account_subtype |-> "checking",
      loan_monthly_payment |-> NULL, loan_original_amount |-> NULL,
      loan_interest_rate |-> NULL]}

\* variant that falls back to any Account when none has the external id
AnyAccountIfNone(accts, x) ==
    IF \E a \in accts : a.external_id = x THEN {a \in accts : a.external_id = x}
    ELSE accts

\* Account.query.filter_by(external_id=x).first(): any source
AccountsByExternalId(accts, x) == {a \in accts : a.external_id = x}

\* Transaction.query.filter_by(plaid_transaction_id=x).first() is not None
HasTxn(tx, x) == \E t \in tx : t.plaid_transaction_id = x

\* the unique index on transaction.plaid_transaction_id
UniqueTxnId(tx) ==
    \A t1, t2 \in tx : t1.plaid_transaction_id = t2.plaid_transaction_id => t1 = t2

NewTxn(r, acc) ==
    [plaid_transaction_id |-> r.transaction_id, account_db_id |-> acc.id,
     plaid_account_id |-> r.account_id, amount |-> r.amount, date |-> r.date,
     budget_category |-> _map_category(r.category)]

\* variant of the modified branch that leaves the amount alone
OverwriteKeepingAmount(t, r) ==
    [t EXCEPT !.date = r.date, !.budget_category = _map_category(r.category)]

\* variant of the modified branch that also takes the record's account
OverwriteWithAccount(t, r) ==
    [t EXCEPT !.amount = r.amount, !.date = r.date,
              !.budget_category = _map_category(r.category),
              !.plaid_account_id = r.account_id]

\* the assignments of the modified branch (lines 88-91)
Overwrite(t, r) ==
    [t EXCEPT !.amount = r.amount, !.date = r.date,
              !.budget_category = _map_category(r.category)]

----------------------------------------------------------------------------
(* Applying one page to the session (lines 61-105) *)

\* st: [tx, modified, added_count, raised]; modified_count and removed_count
\* are only logged and are left out
\* raised: "none", "Exception" (TypeError, IndexError, KeyError) or
\* "SQLAlchemyError" (IntegrityError at flush)

NoDupCheck(tx, x) == FALSE

\* line 68: the duplicate-delivery test
IsDuplicateAdd(tx, x) == HasTxn(tx, x)

AddOne(st, r, accts) ==
    LET accs == AccountsByExternalId(accts, r.account_id) IN
    IF accs = {} THEN st
    ELSE IF IsDuplicateAdd(st.tx, r.transaction_id)
    THEN [st EXCEPT !.modified = Append(@, r)]
    ELSE IF AddedRaises(r.category) THEN [st EXCEPT !.raised = "Exception"]
    ELSE IF HasTxn(st.tx, r.transaction_id) THEN [st EXCEPT !.raised = "SQLAlchemyError"]
    ELSE [st EXCEPT !.tx = @ \cup {NewTxn(r, CHOOSE a \in accs : TRUE)},
                    !.added_count = @ + 1]

RECURSIVE AddLoop(_, _, _)
AddLoop(st, recs, accts) ==
    IF recs = <<>> \/ st.raised # "none" THEN st
    ELSE AddLoop(AddOne(st, Head(recs), accts), Tail(recs), accts)

ModifyOne(st, r) ==
    IF ~HasTxn(st.tx, r.transaction_id) THEN st
    ELSE LET t == CHOOSE t \in st.tx : t.plaid_transaction_id = r.transaction_id
             tx2 == (st.tx \ {t}) \cup {Overwrite(t, r)}
         IN  IF ModifiedRaises(r.category)
             THEN [st EXCEPT !.tx = tx2, !.raised = "Exception"]
             ELSE [st EXCEPT !.tx = tx2]

RECURSIVE ModifyLoop(_, _)
ModifyLoop(st, recs) ==
    IF recs = <<>> \/ st.raised # "none" THEN st
    ELSE ModifyLoop(ModifyOne(st, Head(recs)), Tail(recs))

\* variant whose DELETE has no WHERE clause
RemoveEveryRow(st, ids) ==
    IF st.raised # "none" \/ ids = {} THEN st ELSE [st EXCEPT !.tx = {}]

RemoveAll(st, ids) ==
    IF st.raised # "none" THEN st
    ELSE [st EXCEPT !.tx = {t \in @ : t.plaid_transaction_id \notin ids}]

ApplyPage(tx, added_count, p, accts) ==
    LET st0 == [tx |-> tx, modified |-> p.modified, added_count |-> added_count,
                raised |-> "none"]
        st1 == AddLoop(st0, p.added, accts)
        st2 == ModifyLoop(st1, st1.modified)
    IN  RemoveAll(st2, p.removed)

\* cleanup_old_transactions: DELETE ... WHERE date < five_months_ago
DeleteOld(tx, t) == {r \in tx : ~(r.date < Cutoff(t))}

----------------------------------------------------------------------------
(* The provider's change feed *)

ItemIds == {"item1", "item2"}

\* PlaidItem.query.filter_by(user_id=...).all(): the stored items, in id order
ItemsToSync(cur) ==
    IF "item2" \in DOMAIN cur THEN <<"item1", "item2">> ELSE <<"item1">>

TxnIds == {"t1", "t2"}
Today0 == MkDate(2026, 3, 31)
Expired == MkDate(2025, 9, 30)     \* the day before Cutoff(Today0)
InWindow == MkDate(2025, 10, 1)    \* Cutoff(Today0) itself

Food == CatList(<<"Food and Drink", "Restaurants">>)
Bogus == CatList(<<"Bogus">>)

\* what a delivery carries besides its ids
Payloads ==
    {[amount |-> 10, date |-> InWindow, category |-> Food],
     [amount |-> 20, date |-> Expired, category |-> Bogus],
     [amount |-> 30, date |-> InWindow, category |-> CatNull]}

Rec(id, acct, pl) ==
    [transaction_id |-> id, account_id |-> acct, amount |-> pl.amount,
     date |-> pl.date, category |-> pl.category]

AddedRecords == {Rec(id, "acc1", pl) : id \in TxnIds, pl \in Payloads}
ModifiedRecords == {Rec(id, "acc1", pl) : id \in TxnIds, pl \in Payloads}

SeqsUpTo2(S) == {<<>>} \cup {<<x>> : x \in S} \cup {<<x, y>> : x, y \in S}
SeqIds(q) == {q[i].transaction_id : i \in DOMAIN q}

RequestCursors == {"", "c1", "c2"}
NextCursors == {"c1", "c2"}        \* next_cursor is a non-empty token

\* added, modified and removed are disjoint and name each transaction once
WellFormedPage(p) ==
    /\ Cardinality(SeqIds(p.added)) = Len(p.added)
    /\ SeqIds(p.added) \cap SeqIds(p.modified) = {}
    /\ SeqIds(p.added) \cap p.removed = {}
    /\ SeqIds(p.modified) \cap p.removed = {}

Pages ==
    {p \in [added : SeqsUpTo2(AddedRecords),
            modified : {<<>>} \cup {<<x>> : x \in ModifiedRecords},
            removed : {{}} \cup {{x} : x \in TxnIds},
            has_more : BOOLEAN,
            next_cursor : NextCursors] : WellFormedPage(p)}

\* the provider's cursors form a chain: each answer names the position after
\* the request's
CursorAfter(c) == IF c = "c1" THEN "c2" ELSE "c1"

NoPage == [added |-> <<>>, modified |-> <<>>, removed |-> {}, has_more |-> FALSE,
           next_cursor |-> ""]

\* feed.kind = "any": the provider may answer any page at the next position
AnyFeed == [kind |-> "any"]

\* the pages the provider may answer to a request carrying cursor c
\* feed.kind = "same": the upstream page is unchanged, whatever the cursor
\* feed.kind = "quiet": nothing new upstream, every answer is an empty last page
\* feed.kind = "fixed": two pages of changes that the provider answers at the
\*     same cursors every time: f.first at "", f.second at "c1", and nothing
\*     new at the cursor after them
FeedPages(f, c) ==
    CASE f.kind = "any" -> {p \in Pages : p.next_cursor = CursorAfter(c)}
      [] f.kind = "same" -> {f.page}
      [] f.kind = "quiet" -> {[NoPage EXCEPT !.next_cursor = CursorAfter(c)]}
      [] f.kind = "fixed" -> {IF c = "" THEN f.first
                              ELSE IF c = "c1" THEN f.second
                              ELSE [NoPage EXCEPT !.next_cursor = c]}

----------------------------------------------------------------------------
(* sync_transactions_for_item, driven by the job's transaction phase *)

NoLoc == [item |-> NULL, cursor |-> "", next_cursor |-> "", has_more |-> TRUE,
          item_failed |-> FALSE, added_count |-> 0]

\* obs: what an observer of the running invocation has seen
\*   start_cursor    stored sync_cursor when the invocation began
\*   req_cursor      cursor carried by the latest page request
\*   requests        page requests issued in this invocation
\*   fetched         page requests answered with a page
\*   committed       pages of this invocation whose commit succeeded
\*   committed_next  next_cursor of the latest committed page
\*   dup_ids         ids of the latest page's added records found already stored
\*   failure         what went wrong: "none", "api" (page request), "record"
\*                   (malformed record), "integrity" (unique index at flush),
\*                   "page_commit", "cursor_commit"
\*   cleanup         "none" (not run), "ok" or "failed"
\*   before          the session's Transaction table when cleanup began
\*   result          "none" while running, then "True", "False" or "Raised"
NoObs == [start_cursor |-> NULL, req_cursor |-> "", requests |-> 0, fetched |-> 0, committed |-> 0,
          committed_next |-> "", dup_ids |-> {}, failure |-> "none",
          cleanup |-> "none", before |-> {}, result |-> "none"]

\* line 40: if cursor == None: cursor = ""
RequestCursor(stored) == IF stored = NULL THEN "" ELSE stored

\* the except clauses around the page loop (lines 137-142): what the call
\* does with an exception that reaches them
OnlyApiCaught(exc) == IF exc = "ApiException" THEN "False" ELSE "Raised"
OuterExcept(exc) == "False"

\* line 111: cursor = next_cursor, once the page is committed
KeepCursor(cursor, next_cursor) == cursor
CursorAfterCommit(cursor, next_cursor) == next_cursor

\* line 121: if not item_failed and next_cursor
UpdateCursorAlways(item_failed, next_cursor) == next_cursor # ""
ShouldUpdateCursor(item_failed, next_cursor) == ~item_failed /\ next_cursor # ""

\* line 132: if not item_failed
NeverCleanup(item_failed) == FALSE
AlwaysCleanup(item_failed) == TRUE
ShouldCleanup(item_failed) == ~item_failed

\* lines 113-117: rollback, item_failed = True, break: where the invocation
\* goes on after a page commit that failed
ContinueIfMore(has_more) == IF has_more THEN "fetch" ELSE "cursor"
AfterFailedCommit(has_more) == "cursor"

\* line 136: return not item_failed
ReturnValue(item_failed) == IF item_failed THEN "False" ELSE "True"

\* the loop of app.py line 111 ends the iteration with the next item, if any
StopAfterFirst(q) == <<>>
RestOfItems(q) == Tail(q)

\* lines 99-111 of app.py: the job enters its transaction phase, after the
\* loop over symbols_to_fetch where the price phase is specified (a cycle is
\* explored only when all its invocations fit the bound)
TransactionPhaseBegin ==
    /\ pc = "idle"
    /\ job.at \in {"none", "prices"}
    /\ job.pairs = {}
    /\ syncs + Len(ItemsToSync(cursors)) <= MaxSyncs
    /\ queue' = ItemsToSync(cursors)
    /\ invoked' = <<>>
    /\ pc' = "loop"
    /\ job' = [job EXCEPT !.at = IF @ = "none" THEN @ ELSE "transactions"]
    /\ UNCHANGED <<today, accounts, txns, sess, cursors, feed, loc, page, obs, ideal, syncs, hpc, hloc, nreq, hist>>
    /\ UNCHANGED <<prices, cache, now, mkt, inp, out, plaid_items, scheduler>>

\* app.py line 113 and lines 32-43: the loop hands the next item to
\* sync_transactions_for_item
SyncBegin ==
    /\ pc \in {"loop", "returned"}
    /\ queue # <<>>
    /\ obs.result # "Raised"
    /\ syncs < MaxSyncs
    /\ syncs' = syncs + 1
    /\ LET it == Head(queue) IN
        /\ loc' = [NoLoc EXCEPT !.item = it, !.cursor = RequestCursor(cursors[it])]
        /\ obs' = [NoObs EXCEPT !.start_cursor = cursors[it]]
        /\ invoked' = Append(invoked, [item |-> it, after |-> obs.result])
    /\ queue' = RestOfItems(queue)
    /\ page' = NoPage
    /\ pc' = "fetch"
    /\ UNCHANGED <<today, accounts, txns, sess, cursors, feed, ideal, hpc, hloc, nreq, hist>>
    /\ UNCHANGED auxVars

\* line 50 raises: ApiException or any other error of the client
FetchFails ==
    /\ pc = "fetch"
    /\ \E exc \in {"ApiException", "Exception"} :
        obs' = [obs EXCEPT !.req_cursor = loc.cursor, !.requests = @ + 1,
                           !.failure = "api",
                           !.result = OuterExcept(exc)]
    /\ page' = NoPage
    /\ pc' = "returned"
    /\ UNCHANGED <<today, accounts, txns, sess, cursors, feed, queue, loc, ideal, syncs, hpc, hloc, nreq, hist, invoked>>
    /\ UNCHANGED auxVars

\* lines 45-105: one page is requested and applied to the session
FetchAndApplyPage ==
    /\ pc = "fetch"
    /\ \E p \in FeedPages(feed, loc.cursor) :
        /\ p.has_more => obs.fetched + 1 < MaxPagesPerSync
        /\ LET st == ApplyPage(sess, loc.added_count, p, accounts)
               seen == [obs EXCEPT !.req_cursor = loc.cursor, !.requests = @ + 1,
                                   !.fetched = @ + 1,
                                   !.dup_ids = {p.added[i].transaction_id : i \in
                                       {j \in DOMAIN p.added :
                                          /\ AccountsByExternalId(accounts, p.added[j].account_id) # {}
                                          /\ HasTxn(sess, p.added[j].transaction_id)}}]
           IN
            /\ page' = p
            /\ sess' = IF st.raised = "SQLAlchemyError" THEN txns ELSE st.tx
            /\ loc' = [loc EXCEPT !.has_more = p.has_more, !.next_cursor = p.next_cursor,
                                  !.added_count = st.added_count,
                                  !.item_failed = (st.raised = "SQLAlchemyError")]
            /\ CASE st.raised = "none" ->
                        /\ obs' = seen
                        /\ pc' = "commit"
                 [] st.raised = "SQLAlchemyError" ->
                        \* lines 113-117: rollback, item_failed, break
                        /\ obs' = [seen EXCEPT !.failure = "integrity"]
                        /\ pc' = "cursor"
                 [] OTHER ->
                        \* lines 140-142: the session is left as it is
                        /\ obs' = [seen EXCEPT !.failure = "record",
                                               !.result = OuterExcept(st.raised)]
                        /\ pc' = "returned"
    /\ UNCHANGED <<today, accounts, txns, cursors, feed, queue, ideal, syncs, hpc, hloc, nreq, hist, invoked>>
    /\ UNCHANGED auxVars


\* lines 107-117: db.session.commit() of the page, or its failure
CommitPage ==
    /\ pc = "commit"
    /\ \E ok \in BOOLEAN :
        IF ok
        THEN /\ txns' = sess
             /\ ideal' = ApplyPage(ideal, 0, page, accounts).tx
             /\ loc' = [loc EXCEPT !.cursor = CursorAfterCommit(loc.cursor, loc.next_cursor)]
             /\ obs' = [obs EXCEPT !.committed = @ + 1,
                                   !.committed_next = loc.next_cursor]
             /\ pc' = IF loc.has_more THEN "fetch" ELSE "cursor"
             /\ UNCHANGED sess
        ELSE /\ sess' = txns
             /\ loc' = [loc EXCEPT !.item_failed = TRUE]
             /\ obs' = [obs EXCEPT !.failure = "page_commit"]
             /\ pc' = AfterFailedCommit(loc.has_more)
             /\ UNCHANGED <<txns, ideal>>
    /\ UNCHANGED <<today, accounts, cursors, feed, queue, page, syncs, hpc, hloc, nreq, hist, invoked>>
    /\ UNCHANGED auxVars

\* lines 120-129: item.sync_cursor = next_cursor; db.session.commit()
UpdateCursor ==
    /\ pc = "cursor"
    /\ page' = NoPage
    /\ pc' = "cleanup"
    /\ IF ShouldUpdateCursor(loc.item_failed, loc.next_cursor)
       THEN \E ok \in BOOLEAN :
            IF ok
            THEN /\ cursors' = [cursors EXCEPT ![loc.item] = loc.next_cursor]
                 /\ txns' = sess
                 /\ UNCHANGED <<sess, loc, obs>>
            ELSE /\ sess' = txns
                 /\ loc' = [loc EXCEPT !.item_failed = TRUE]
                 /\ obs' = [obs EXCEPT !.failure = "cursor_commit"]
                 /\ UNCHANGED <<txns, cursors>>
       ELSE UNCHANGED <<txns, sess, cursors, loc, obs>>
    /\ UNCHANGED <<today, accounts, feed, queue, ideal, syncs, hpc, hloc, nreq, hist, invoked>>
    /\ UNCHANGED auxVars

\* lines 131-136 and 144-159: cleanup_old_transactions, then return
CleanupAndReturn ==
    /\ pc = "cleanup"
    /\ pc' = "returned"
    /\ IF ShouldCleanup(loc.item_failed)
       THEN \E ok \in BOOLEAN :
            IF ok
            THEN /\ sess' = DeleteOld(sess, today)
                 /\ txns' = DeleteOld(sess, today)
                 /\ ideal' = DeleteOld(ideal, today)
                 /\ obs' = [obs EXCEPT !.cleanup = "ok", !.before = sess,
                                       !.result = ReturnValue(loc.item_failed)]
            ELSE /\ sess' = txns
                 /\ obs' = [obs EXCEPT !.cleanup = "failed", !.before = sess,
                                       !.result = ReturnValue(loc.item_failed)]
                 /\ UNCHANGED <<txns, ideal>>
       ELSE /\ obs' = [obs EXCEPT !.result = ReturnValue(loc.item_failed)]
            /\ UNCHANGED <<txns, sess, ideal>>
    /\ UNCHANGED <<today, accounts, cursors, feed, queue, loc, page, syncs, hpc, hloc, nreq, hist, invoked>>
    /\ UNCHANGED auxVars

\* the loop over items_to_sync is over (or was left by an exception, line 122);
\* leaving app.app_context() removes the scoped session
TransactionPhaseEnd ==
    /\ pc \in {"loop", "returned"}
    /\ queue = <<>> \/ obs.result = "Raised"
    /\ sess' = txns
    /\ queue' = <<>>
    /\ loc' = NoLoc
    /\ page' = NoPage
    /\ obs' = NoObs
    /\ pc' = "idle"
    /\ job' = [job EXCEPT !.at = IF @ = "none" THEN @ ELSE "done"]
    /\ UNCHANGED <<today, accounts, txns, cursors, feed, ideal, syncs, hpc, hloc, nreq, hist, invoked>>
    /\ UNCHANGED <<prices, cache, now, mkt, inp, out, plaid_items, scheduler>>

----------------------------------------------------------------------------
(* Account reconciliation: sync_plaid_accounts, sync_robinhood_portfolio and *)
(* sync_coinbase_portfolio (routes.py).  Each request has its own session:   *)
(* rows it added (staged), rows it changed (updates), published by commit.   *)

Workers == {1, 2}       \* request handlers that may run at the same time

Balances == {1, 2}

\* One provider record, whatever the provider:
\*   path    the loop that reconciles it
\*   id      account_id / security_id / position id / wallet uuid
\*   label   account name / ticker_symbol / symbol / currency
\*   type    Plaid account type / position type
\*   amount  balances.current / quantity / available_balance.value
\*   detail  security name (holdings only)
PlaidAccount(account_id, name, type, current) ==
    [path |-> "PlaidAccounts", id |-> account_id, label |-> name, type |-> type,
     amount |-> current, detail |-> NULL]
Holding(security_id, ticker_symbol, name, quantity) ==
    [path |-> "PlaidHoldings", id |-> security_id, label |-> ticker_symbol,
     type |-> "investment", amount |-> quantity, detail |-> name]
Position(id, symbol, type, quantity) ==
    [path |-> "Robinhood", id |-> id, label |-> symbol, type |-> type,
     amount |-> quantity, detail |-> NULL]
Wallet(uuid, currency, value) ==
    [path |-> "Coinbase", id |-> uuid, label |-> currency, type |-> "crypto",
     amount |-> value, detail |-> NULL]

\* the source each loop filters by and creates with
SourceOf(path) ==
    CASE path = "PlaidAccounts" -> "Plaid"
      [] path = "PlaidHoldings" -> "PlaidInvestment"
      [] path = "Robinhood" -> "Robinhood"
      [] path = "Coinbase" -> "Coinbase"

\* f"{currency} Wallet"
WalletName(currency) == IF currency = "BTC" THEN "BTC Wallet" ELSE "Wallet"

\* the name the create branch of each loop gives the Account
NameOf(r) ==
    CASE r.path = "PlaidAccounts" -> r.label
      [] r.path = "PlaidHoldings" -> IF r.label = NULL THEN "rando" ELSE r.label
      [] r.path = "Robinhood" -> IF r.label = NULL THEN "RH_fallback" ELSE r.label
      [] r.path = "Coinbase" -> WalletName(r.label)

\* the else branches: Account(...); id 0 until the row is inserted
NewAccount(r) ==
    [id |-> 0, external_id |-> r.id, source |-> SourceOf(r.path), name |-> NameOf(r),
     balance |-> r.amount,
     account_type |-> CASE r.path = "PlaidAccounts" -> r.type
                        [] r.path = "PlaidHoldings" -> "investment"
                        [] r.path = "Robinhood" ->
                                IF r.type = "crypto" THEN "crypto" ELSE "investment"
                        [] r.path = "Coinbase" -> "crypto",
     account_subtype |-> CASE r.path = "PlaidAccounts" -> "checking"
                           [] r.path = "PlaidHoldings" -> r.detail
                           [] OTHER -> r.label,
     loan_monthly_payment |-> NULL, loan_original_amount |-> NULL,
     loan_interest_rate |-> NULL]

\* routes.py line 233: only non-investment accounts are created by the account pass
Creates(r) == r.path = "PlaidAccounts" => r.type # "investment"

\* variant with lines 228-229 active: the account pass also stores the type
UpdateWithType(a, r) ==
    [a EXCEPT !.name = r.label, !.balance = r.amount, !.account_type = r.type]

\* the if-account branches
UpdateAccount(a, r) ==
    CASE r.path = "PlaidAccounts" ->
            IF a.account_type # "investment"
            THEN [a EXCEPT !.name = r.label, !.balance = r.amount] ELSE a
      [] r.path = "PlaidHoldings" -> [a EXCEPT !.balance = r.amount, !.name = NameOf(r)]
      [] r.path = "Robinhood" ->
            [a EXCEPT !.balance = r.amount,
                      !.name = IF r.label = NULL THEN a.name ELSE r.label]
      [] r.path = "Coinbase" -> [a EXCEPT !.balance = r.amount]

\* what the providers answer
NoResp == [api_error |-> FALSE, accounts |-> <<>>, holdings |-> <<>>,
           positions |-> <<>>, wallets |-> <<>>]

PlaidResponses ==
    {[NoResp EXCEPT !.api_error = TRUE]} \cup
    {[NoResp EXCEPT !.accounts = <<PlaidAccount("e1", "Main", t, b)>>] :
        t \in {"depository", "investment"}, b \in Balances} \cup
    {[NoResp EXCEPT !.accounts = <<PlaidAccount("e1", "Main", "depository", 1)>>,
                    !.holdings = <<Holding("e2", "AAPL", "Apple Inc", 1)>>]}

RobinhoodResponses ==
    {NoResp} \cup {[NoResp EXCEPT !.positions = <<Position("e2", "AAPL", "stock", b)>>] :
                        b \in Balances}

CoinbaseResponses ==
    {[NoResp EXCEPT !.wallets = <<Wallet("e2", "BTC", b)>>] : b \in Balances}

Requests ==
    {[kind |-> "Plaid", resp |-> x] : x \in PlaidResponses} \cup
    {[kind |-> "Robinhood", resp |-> x] : x \in RobinhoodResponses} \cup
    {[kind |-> "Coinbase", resp |-> x] : x \in CoinbaseResponses}

\* the records a handler reconciles, in the order of its loops; a failed
\* accounts_get skips both passes of the item
Records(kind, resp) ==
    CASE kind = "Plaid" -> IF resp.api_error THEN <<>> ELSE resp.accounts \o resp.holdings
      [] kind = "Robinhood" -> resp.positions
      [] kind = "Coinbase" -> resp.wallets
      [] OTHER -> <<>>

SeqToSet(q) == {q[i] : i \in DOMAIN q}

NoCall == [kind |-> "none", resp |-> NoResp, status |-> 0, solo |-> TRUE]

NoHandler == [kind |-> "none", resp |-> NoResp, todo |-> <<>>, staged |-> <<>>,
              updates |-> {}, status |-> 0, solo |-> TRUE, prev |-> NoCall]

\* the Account table as the handler's session sees it: committed rows, its own
\* changes on top, its own flushed inserts
SessionView(tbl, h) ==
    {IF \E u \in h.updates : u.id = a.id
     THEN CHOOSE u \in h.updates : u.id = a.id ELSE a : a \in tbl}
    \cup SeqToSet(h.staged)

\* Account.query.filter_by(external_id=x, source=src).first()
LookupAccount(view, x, src) == {a \in view : a.external_id = x /\ a.source = src}

\* without the index nothing is refused
NoUniqueIndex(tbl, rows) == FALSE

\* the unique index on account.external_id (models.py line 18): would inserting
\* rows be refused?
ViolatesUnique(tbl, rows) ==
    \/ \E i \in DOMAIN rows : \E a \in tbl : a.external_id = rows[i].external_id
    \/ \E i, j \in DOMAIN rows : i # j /\ rows[i].external_id = rows[j].external_id

NextId(tbl) ==
    IF tbl = {} THEN 1
    ELSE (CHOOSE m \in {a.id : a \in tbl} : \A a \in tbl : a.id <= m) + 1

RECURSIVE InsertAll(_, _)
InsertAll(tbl, rows) ==
    IF rows = <<>> THEN tbl
    ELSE InsertAll(tbl \cup {[Head(rows) EXCEPT !.id = NextId(tbl)]}, Tail(rows))

\* variant that deletes the rows a handler touched
DropUpdated(tbl, updates) == {a \in tbl : \A u \in updates : u.id # a.id}

\* UPDATE account SET name, balance WHERE id
ApplyUpdates(tbl, updates) ==
    {IF \E u \in updates : u.id = a.id
     THEN LET u == CHOOSE u \in updates : u.id = a.id
          IN  [a EXCEPT !.name = u.name, !.balance = u.balance]
     ELSE a : a \in tbl}

\* one pass of a reconciliation loop body on the handler's session
ReconcileRecord(h, tbl, r) ==
    LET found == LookupAccount(SessionView(tbl, h), r.id, SourceOf(r.path)) IN
    IF found # {}
    THEN LET a == CHOOSE a \in found : TRUE
             b == UpdateAccount(a, r)
         IN  IF a.id = 0
             THEN [h EXCEPT !.staged = [i \in DOMAIN @ |-> IF @[i] = a THEN b ELSE @[i]]]
             ELSE [h EXCEPT !.updates = {u \in @ : u.id # a.id} \cup {b}]
    ELSE IF Creates(r) THEN [h EXCEPT !.staged = Append(@, NewAccount(r))]
    ELSE h

Active(w) == hpc[w] \in {"loop", "commit"}

CallOf(h) == [kind |-> h.kind, resp |-> h.resp, status |-> h.status, solo |-> h.solo]

\* a request arrives and the provider answers.  Robinhood and Coinbase return
\* 200 at once on an empty answer; sync_plaid_accounts goes on to its commit.
ReconStart ==
    /\ nreq < MaxRequests
    /\ \E w \in Workers, req \in Requests :
        /\ hpc[w] \in {"idle", "done"}
        /\ LET alone == \A v \in Workers \ {w} : ~Active(v)
               todo == Records(req.kind, req.resp)
               h == [NoHandler EXCEPT !.kind = req.kind, !.resp = req.resp,
                                      !.todo = todo, !.solo = alone, !.prev = hist]
           IN  IF todo = <<>> /\ req.kind # "Plaid"
               THEN /\ hloc' = [hloc EXCEPT ![w] = [h EXCEPT !.status = 200]]
                    /\ hpc' = [hpc EXCEPT ![w] = "done"]
                    /\ hist' = CallOf([h EXCEPT !.status = 200])
               ELSE /\ hloc' = [v \in Workers |->
                                    IF v = w THEN h
                                    ELSE IF Active(v) THEN [hloc[v] EXCEPT !.solo = FALSE]
                                    ELSE hloc[v]]
                    /\ hpc' = [hpc EXCEPT ![w] = IF todo = <<>> THEN "commit" ELSE "loop"]
                    /\ UNCHANGED hist
    /\ nreq' = nreq + 1
    /\ UNCHANGED <<today, accounts, txns, sess, cursors, feed, queue, pc, loc, page, obs, ideal, syncs, invoked>>
    /\ UNCHANGED auxVars

\* one iteration of a reconciliation loop.  The query first flushes the rows
\* added so far; an IntegrityError there ends the request with 500 and nothing
\* committed.
ReconcileOne ==
    /\ \E w \in Workers :
        /\ hpc[w] = "loop"
        /\ LET h == hloc[w] IN
           IF ViolatesUnique(accounts, h.staged)
           THEN LET failed == [h EXCEPT !.staged = <<>>, !.updates = {}, !.status = 500] IN
                /\ hloc' = [hloc EXCEPT ![w] = failed]
                /\ hpc' = [hpc EXCEPT ![w] = "done"]
                /\ hist' = CallOf(failed)
           ELSE LET h2 == ReconcileRecord(h, accounts, Head(h.todo)) IN
                /\ hloc' = [hloc EXCEPT ![w] = [h2 EXCEPT !.todo = Tail(h.todo)]]
                /\ hpc' = [hpc EXCEPT ![w] = IF Tail(h.todo) = <<>> THEN "commit" ELSE "loop"]
                /\ UNCHANGED hist
    /\ UNCHANGED <<today, accounts, txns, sess, cursors, feed, queue, pc, loc, page, obs, ideal, syncs, nreq, invoked>>
    /\ UNCHANGED auxVars

\* db.session.commit() and the response: 200, or rollback and 500
ReconCommit ==
    /\ \E w \in Workers :
        /\ hpc[w] = "commit"
        /\ LET h == hloc[w] IN
           IF ViolatesUnique(accounts, h.staged)
           THEN LET failed == [h EXCEPT !.staged = <<>>, !.updates = {}, !.status = 500] IN
                /\ hloc' = [hloc EXCEPT ![w] = failed]
                /\ hist' = CallOf(failed)
                /\ UNCHANGED accounts
           ELSE LET done == [h EXCEPT !.staged = <<>>, !.updates = {}, !.status = 200] IN
                /\ accounts' = InsertAll(ApplyUpdates(accounts, h.updates), h.staged)
                /\ hloc' = [hloc EXCEPT ![w] = done]
                /\ hist' = CallOf(done)
        /\ hpc' = [hpc EXCEPT ![w] = "done"]
    /\ UNCHANGED <<today, txns, sess, cursors, feed, queue, pc, loc, page, obs, ideal, syncs, nreq, invoked>>
    /\ UNCHANGED auxVars

\* job.at is "none" where the price phase of background_sync_job is not part
\* of the specification
\* fetches, stored and cycle are history: the upstream requests and pauses of
\* the running cycle in order, the (symbol, price) last made durable for each
\* symbol, and the number of the cycle
NoJob ==
    [at |-> "none", pairs |-> {}, attempted |-> <<>>, total |-> 0,
     created |-> 0, updated |-> 0, failed |-> 0,
     fetches |-> <<>>, stored |-> {}, cycle |-> 0]
\* no trigger response yet
NoTrigger == [route |-> "none", status |-> 0, job_id |-> ""]

\* the scheduler where it is not part of the specification
NoScheduler ==
    [running |-> FALSE, jobs |-> {}, due |-> {}, executing |-> 0, fired |-> 0,
     skipped |-> 0, response |-> NoTrigger]

NoKey == <<>>
NoData == [kind |-> "none", price |-> NULL]
NoPriceCall ==
    [key |-> NoKey, at |-> 0, before |-> {}, resp |-> NoData, value |-> {},
     raised |-> FALSE, requests |-> 0,
     prior |-> [key |-> NoKey, at |-> 0, fetched |-> FALSE]]

\* the state after create_app on a database holding the given rows
BootCore(t, items, accts, rows, f) ==
    /\ today = t
    /\ accounts = accts
    /\ txns = rows
    /\ sess = rows
    /\ cursors = [i \in items |-> NULL]
    /\ feed = f
    /\ queue = <<>>
    /\ pc = "idle"
    /\ loc = NoLoc
    /\ page = NoPage
    /\ obs = NoObs
    /\ ideal = rows
    /\ syncs = 0
    /\ invoked = <<>>
    /\ hpc = [w \in Workers |-> "idle"]
    /\ hloc = [w \in Workers |-> NoHandler]
    /\ nreq = 0
    /\ hist = NoCall

\* no price stored or cached, no job running, nothing evaluated
BootAux ==
    /\ job = NoJob
    /\ prices = {}
    /\ cache = {}
    /\ now = 0
    /\ mkt = NoPriceCall /\ plaid_items = {} /\ scheduler = NoScheduler
    /\ inp = NULL
    /\ out = NULL

Boot(t, items, accts, rows, f) == BootCore(t, items, accts, rows, f) /\ BootAux

Init == Boot(Today0, ItemIds, SyncAccounts, {}, AnyFeed)

Next ==
    \/ TransactionPhaseBegin
    \/ SyncBegin
    \/ FetchFails
    \/ FetchAndApplyPage
    \/ CommitPage
    \/ UpdateCursor
    \/ CleanupAndReturn
    \/ TransactionPhaseEnd

Spec == Init /\ [][Next]_vars

----------------------------------------------------------------------------
(* Scenario: one item, cursor null, an upstream page that does not change *)

GoodPayloads ==
    {[amount |-> 10, date |-> InWindow, category |-> Food],
     [amount |-> 40, date |-> Today0, category |-> Bogus]}

\* two added transactions for a known account, inside the retention window
ScenarioPages ==
    {[added |-> <<Rec("t1", "acc1", p1), Rec("t2", "acc1", p2)>>, modified |-> <<>>,
      removed |-> {}, has_more |-> FALSE, next_cursor |-> c] :
        p1 \in GoodPayloads, p2 \in GoodPayloads, c \in NextCursors}

InitE2E ==
    \E p \in ScenarioPages :
        Boot(Today0, {"item1"}, SyncAccounts, {}, [kind |-> "same", page |-> p])

SpecE2E == InitE2E /\ [][Next]_vars

----------------------------------------------------------------------------
(* Retention cleanup on a stored history, on several days of the year *)

Todays == {MkDate(2026, 3, 31), MkDate(2026, 7, 31), MkDate(2026, 1, 15),
           MkDate(2024, 7, 29)}

\* the last day of the month before dt's
EndOfPreviousMonth(dt) ==
    LET total == YearOf(dt) * 12 + (MonthOf(dt) - 1) - 1
        y == total \div 12
        m == (total % 12) + 1
    IN  MkDate(y, m, DaysInMonth(y, m))

StoredTxn(id, d) ==
    [plaid_transaction_id |-> id, account_db_id |-> 1, plaid_account_id |-> "acc1",
     amount |-> 10, date |-> d, budget_category |-> DefaultBucket]

\* rows dated around the boundary: the day before the cutoff month, its first
\* day, the day five months back, today
History(t) ==
    LET back == MinusMonths(t, RetentionMonths)
        first == MkDate(YearOf(back), MonthOf(back), 1)
    IN  {StoredTxn("t1", EndOfPreviousMonth(first)), StoredTxn("t2", first),
         StoredTxn("t3", back), StoredTxn("t4", t)}

QuietFeed == [kind |-> "quiet"]

InitCleanup ==
    \E t \in Todays : \E rows \in SUBSET History(t) :
        Boot(t, {"item1"}, SyncAccounts, rows, QuietFeed)

SpecCleanup == InitCleanup /\ [][Next]_vars

----------------------------------------------------------------------------
(* Concurrent reconciliation requests on an empty Account table *)

InitRecon == Boot(Today0, {"item1"}, {}, {}, AnyFeed)

NextRecon ==
    \/ ReconStart
    \/ ReconcileOne
    \/ ReconCommit

SpecRecon == InitRecon /\ [][NextRecon]_vars

----------------------------------------------------------------------------
(* Reconciliation requests on an Account table that already has rows *)

Existing(id, external_id, source, name, type, subtype, payment, original, rate) ==
    [id |-> id, external_id |-> external_id, source |-> source, name |-> name,
     balance |-> 2, account_type |-> type, account_subtype |-> subtype,
     loan_monthly_payment |-> payment, loan_original_amount |-> original,
     loan_interest_rate |-> rate]

\* a Plaid loan account whose loan fields the user has set
PlaidLoan == Existing(1, "e1", "Plaid", "Mortgage", "loan", "mortgage",
                      "250.00", "90000.00", "0.0500")

\* an Account of source Plaid whose type is investment
PlaidBrokerage == Existing(1, "e1", "Plaid", "Brokerage", "investment", "brokerage",
                           NULL, NULL, NULL)

ExistingTables ==
    {{PlaidLoan, Existing(2, "e2", "Robinhood", "AAPL", "investment", "AAPL",
                          NULL, NULL, NULL)},
     {PlaidBrokerage, Existing(2, "e2", "Coinbase", "BTC Wallet", "crypto", "BTC",
                               NULL, NULL, NULL)},
     {PlaidLoan, Existing(2, "e2", "PlaidInvestment", "AAPL", "investment", "Apple Inc",
                          NULL, NULL, NULL)}}

InitExisting ==
    \E accts \in ExistingTables : Boot(Today0, {"item1"}, accts, {}, AnyFeed)

SpecExisting == InitExisting /\ [][NextRecon]_vars

----------------------------------------------------------------------------
(* _map_category on every category a record may carry *)

SeqsUpTo(S, n) == UNION {[1..k -> S] : k \in 0..n}

CategoryTokens == {"Food and Drink", "Restaurants", "Payroll", "Bogus", "_DEFAULT_"}

Categories ==
    {CatAbsent, CatNull} \cup {CatList(ts) : ts \in SeqsUpTo(CategoryTokens, MaxCategoryLen)}

\* one call of _map_category (plaid_service.py lines 27-30)
MapCategory ==
    /\ out = NULL
    /\ inp \in Categories
    /\ out' = _map_category(inp)
    /\ UNCHANGED <<today, accounts, txns, sess, cursors, feed, queue, pc, loc, page, obs, ideal, syncs, hpc, hloc, nreq, hist, invoked>>
    /\ UNCHANGED <<job, prices, cache, now, mkt, inp, plaid_items, scheduler>>

InitMap ==
    /\ BootCore(Today0, ItemIds, SyncAccounts, {}, AnyFeed)
    /\ job = NoJob /\ prices = {} /\ cache = {} /\ now = 0 /\ mkt = NoPriceCall /\ plaid_items = {} /\ scheduler = NoScheduler
    /\ inp \in Categories
    /\ out = NULL

NextMap == MapCategory

SpecMap == InitMap /\ [][NextMap]_vars

----------------------------------------------------------------------------
(* get_portfolio_overview (routes.py lines 1133-1248): a read-only snapshot   *)
(* of the Account table valued with the MarketPrice table                     *)

\* type_mapping.get(acc.account_type, 'other')
CategoryOf(acc) ==
    CASE acc.account_type = "depository" -> "cash"
      [] acc.account_type = "investment" -> "investment"
      [] acc.account_type = "crypto" -> "crypto"
      [] acc.account_type = "loan" -> "loan"
      [] OTHER -> "other"

\* price_cache = {mp.symbol: ...}; symbol and symbol in price_cache
PriceRowsFor(acc, pr) ==
    {mp \in pr : acc.account_subtype # NULL /\ mp.symbol = acc.account_subtype}

\* variant that values an unpriced holding at its native balance
ValueUnpricedAtBalance(acc, pr) ==
    IF CategoryOf(acc) = "other" THEN 0
    ELSE IF CategoryOf(acc) \in {"investment", "crypto"} /\ PriceRowsFor(acc, pr) # {}
    THEN acc.balance * (CHOOSE mp \in PriceRowsFor(acc, pr) : TRUE).price_usd
    ELSE acc.balance

\* market_value_usd of one account (lines 1199-1226)
MarketValue(acc, pr) ==
    CASE CategoryOf(acc) \in {"cash", "loan"} -> acc.balance
      [] CategoryOf(acc) \in {"investment", "crypto"} ->
            IF PriceRowsFor(acc, pr) # {}
            THEN acc.balance * (CHOOSE mp \in PriceRowsFor(acc, pr) : TRUE).price_usd
            ELSE 0
      [] OTHER -> 0

\* what the account adds to its category's total: its market value, except
\* that line 1224 adds the native balance of an 'other' account
Contribution(acc, pr) ==
    IF CategoryOf(acc) = "other" THEN acc.balance ELSE MarketValue(acc, pr)

\* line 1194: accounts with balance <= 0 are left out
Listed(accts) == {a \in accts : a.balance > 0}

RECURSIVE SumAmounts(_)
SumAmounts(S) ==
    IF S = {} THEN 0
    ELSE LET x == CHOOSE x \in S : TRUE IN x.amount + SumAmounts(S \ {x})

CategoryTotal(accts, pr, cat) ==
    SumAmounts({[id |-> a.id, amount |-> Contribution(a, pr)] :
                    a \in {b \in Listed(accts) : CategoryOf(b) = cat}})

\* variant that counts loans into the grand total
GrandTotalWithLoans(cash, investment, crypto, other, loan) ==
    cash + investment + crypto + other + loan

\* lines 1232-1235
GrandTotal(cash, investment, crypto, other, loan) == cash + investment + crypto + other

MinOf(S) == CHOOSE m \in S : \A x \in S : m <= x

\* lines 1170-1178: min over every cached price that has a time; the result
\* is {t}, or {} when the key prices_as_of is not set
PricesAsOf(pr) ==
    IF pr = {} THEN {} ELSE {MinOf({mp.last_updated : mp \in pr})}

\* account_info; price_usd is {p}, or {} for None
AccountDetail(acc, pr) ==
    [id |-> acc.id, balance |-> acc.balance, category |-> CategoryOf(acc),
     subtype |-> acc.account_subtype,
     price_usd |-> IF CategoryOf(acc) \in {"investment", "crypto"}
                   THEN {mp.price_usd : mp \in PriceRowsFor(acc, pr)} ELSE {},
     market_value_usd |-> MarketValue(acc, pr)]

Overview(accts, pr) ==
    IF accts = {}
    THEN [status |-> 200, message |-> "No accounts found in the database."]
    ELSE LET cash == CategoryTotal(accts, pr, "cash")
             investment == CategoryTotal(accts, pr, "investment")
             crypto == CategoryTotal(accts, pr, "crypto")
             other == CategoryTotal(accts, pr, "other")
             loan == CategoryTotal(accts, pr, "loan")
         IN  [status |-> 200, message |-> "",
              total_value_usd |-> GrandTotal(cash, investment, crypto, other, loan),
              cash_total_usd |-> cash, investment_total_usd |-> investment,
              crypto_total_usd |-> crypto, other_assets_total_usd |-> other,
              loan_total_usd |-> loan,
              prices_as_of |-> PricesAsOf(pr),
              account_details |-> {AccountDetail(a, pr) : a \in Listed(accts)}]

\* no response yet
NoResponse == [status |-> 0, message |-> NULL]

\* GET /api/portfolio/overview
GetPortfolioOverview ==
    /\ out = NoResponse
    /\ out' = Overview(accounts, prices)
    /\ UNCHANGED <<today, accounts, txns, sess, cursors, feed, queue, pc, loc, page, obs, ideal, syncs, hpc, hloc, nreq, hist, invoked>>
    /\ UNCHANGED <<job, prices, cache, now, mkt, inp, plaid_items, scheduler>>

Holder(id, type, subtype, balance) ==
    [id |-> id, external_id |-> NULL, source |-> "Manual", name |-> "Account",
     balance |-> balance, account_type |-> type, account_subtype |-> subtype,
     loan_monthly_payment |-> NULL, loan_original_amount |-> NULL,
     loan_interest_rate |-> NULL]

PortfolioAccounts ==
    {Holder(1, "depository", "checking", 2), Holder(2, "investment", "AAPL", 2),
     Holder(3, "investment", "MSFT", 1), Holder(4, "crypto", "BTC", 1),
     Holder(5, "investment", "TSLA", 0), Holder(6, "credit", NULL, 1)}
    \cup {Holder(7, "loan", NULL, b) : b \in {1, 3}}

PriceRow(symbol, price_usd, last_updated) ==
    [symbol |-> symbol, price_usd |-> price_usd, last_updated |-> last_updated]

PortfolioPrices ==
    {PriceRow("AAPL", 3, 200), PriceRow("MSFT", 2, 100), PriceRow("BTC", 5, 300),
     PriceRow("GOOG", 7, 50)}

UniqueAccountIds(accts) == \A a, b \in accts : a.id = b.id => a = b

InitOverview ==
    /\ \E accts \in SUBSET PortfolioAccounts :
        /\ UniqueAccountIds(accts)
        /\ BootCore(Today0, ItemIds, accts, {}, AnyFeed)
    /\ job = NoJob /\ cache = {} /\ now = 0 /\ mkt = NoPriceCall /\ plaid_items = {} /\ scheduler = NoScheduler
    /\ prices \in SUBSET PortfolioPrices
    /\ inp = NULL
    /\ out = NoResponse

NextOverview == GetPortfolioOverview

SpecOverview == InitOverview /\ [][NextOverview]_vars

----------------------------------------------------------------------------
(* Properties of the transaction sync *)

Running == pc \in {"fetch", "commit", "cursor", "cleanup", "returned"}

\* the page in `page` is applied and its commit has succeeded
JustCommitted ==
    /\ pc \in {"fetch", "cursor"}
    /\ obs.fetched >= 1
    /\ obs.committed = obs.fetched

AddedOf(p) == {p.added[i] : i \in DOMAIN p.added}

RowsWithId(tx, x) == {t \in tx : t.plaid_transaction_id = x}

CarriesFieldsOf(t, r) ==
    /\ t.amount = r.amount
    /\ t.date = r.date
    /\ t.budget_category = _map_category(r.category)

\* C1: when a page commit fails, the invocation returns False and the item's
\* stored sync_cursor is what it was when the invocation began; an invocation's
\* first request carries the stored cursor, so the next run asks for the same
\* page again.
C1_CursorUnchangedOnPageCommitFailure ==
    /\ (pc = "returned" /\ obs.failure = "page_commit") =>
            /\ obs.result = "False"
            /\ cursors[loc.item] = obs.start_cursor
    /\ (pc = "fetch" /\ obs.fetched = 0) =>
            loc.cursor = RequestCursor(cursors[loc.item])

C1_Witness ==
    /\ pc = "returned"
    /\ obs.failure = "page_commit"
    /\ obs.committed = 1
    /\ obs.fetched = 2
    /\ obs.start_cursor = NULL

\* C2: no two Transaction rows share a plaid_transaction_id, in the committed
\* table and in the session; and once a page is committed, every added record
\* whose transaction id was already stored has exactly one row, which carries
\* the amount, date and budget category of this (second) delivery.
C2_DuplicateAddOverwritesSingleRow ==
    /\ UniqueTxnId(txns)
    /\ UniqueTxnId(sess)
    /\ JustCommitted =>
        \A r \in AddedOf(page) :
            r.transaction_id \in obs.dup_ids =>
                /\ Cardinality(RowsWithId(txns, r.transaction_id)) = 1
                /\ \A t \in RowsWithId(txns, r.transaction_id) : CarriesFieldsOf(t, r)

C2_Witness ==
    /\ JustCommitted
    /\ \E r \in AddedOf(page) :
        /\ r.transaction_id \in obs.dup_ids
        /\ r.amount = 20
        /\ \E t \in txns : t.plaid_transaction_id = r.transaction_id /\ t.amount = 20

\* C7: the first request of an invocation carries the stored cursor ("" for
\* null); a later request is made only when every earlier page is committed and
\* carries the next_cursor of the page before it; and the stored sync_cursor
\* changes only to the next_cursor of the latest committed page, when every
\* fetched page of the invocation is committed.
C7_CursorAdvancesOnlyAfterCommit ==
    /\ (Running /\ obs.requests >= 1) =>
        /\ obs.committed \in {obs.requests, obs.requests - 1}
        /\ obs.requests = 1 => obs.req_cursor = RequestCursor(obs.start_cursor)
        /\ (obs.requests > 1 /\ obs.committed = obs.requests - 1) =>
                obs.req_cursor = obs.committed_next
    /\ pc = "fetch" =>
        /\ obs.committed = obs.requests
        /\ loc.cursor = IF obs.requests = 0 THEN RequestCursor(obs.start_cursor)
                        ELSE obs.committed_next
    /\ (Running /\ cursors[loc.item] # obs.start_cursor) =>
        /\ obs.committed >= 1
        /\ obs.committed = obs.fetched
        /\ cursors[loc.item] = obs.committed_next

C7_Witness ==
    /\ pc = "returned"
    /\ obs.fetched = 2
    /\ obs.committed = 2
    /\ obs.start_cursor = NULL
    /\ cursors[loc.item] = "c2"

IsExpired(t) == t.date < Cutoff(today)

C6_CommittedPagesAreAtomic == txns = ideal

\* a failure the environment injected: provider error or persistence error
InjectedFailure == obs.failure \in {"api", "page_commit", "cursor_commit"}

\* C3: with one item whose cursor starts null and an upstream page of two added
\* transactions (known account, inside the retention window, has_more false)
\* that stays the same, every run that meets no provider or persistence error
\* returns True and leaves exactly those two Transaction rows and the page's
\* next_cursor stored; the first run inserts two rows, a run that starts from
\* the stored next_cursor inserts none.
C3_SecondRunInsertsNothing ==
    (feed.kind = "same" /\ pc = "returned" /\ ~InjectedFailure) =>
        /\ obs.result = "True"
        /\ Cardinality(txns) = 2
        /\ {t.plaid_transaction_id : t \in txns} = SeqIds(feed.page.added)
        /\ \A r \in AddedOf(feed.page) :
                \E t \in txns : t.plaid_transaction_id = r.transaction_id
                                /\ CarriesFieldsOf(t, r)
        /\ cursors["item1"] = feed.page.next_cursor
        /\ syncs = 1 => loc.added_count = 2
        /\ obs.start_cursor # NULL =>
                /\ obs.start_cursor = feed.page.next_cursor
                /\ loc.added_count = 0

C3_Witness ==
    /\ feed.kind = "same"
    /\ pc = "returned"
    /\ syncs = 2
    /\ obs.result = "True"
    /\ obs.start_cursor = feed.page.next_cursor
    /\ obs.dup_ids = {"t1", "t2"}
    /\ loc.added_count = 0
    /\ Cardinality(txns) = 2

\* the first day of the month that lies n calendar months before t
FirstOfMonthBack(t, n) ==
    LET idx == YearOf(t) * 12 + (MonthOf(t) - 1) - n
    IN  MkDate(idx \div 12, (idx % 12) + 1, 1)

\* C9: when cleanup_old_transactions has completed without error, every
\* Transaction it found dated before the first day of the month five calendar
\* months before today is gone, every one dated on or after that day (the day
\* itself included) is still there as it was, and nothing else is stored.
C9_CleanupDeletesExactlyOlderThanCutoff ==
    (pc = "returned" /\ obs.cleanup = "ok") =>
        /\ \A r \in obs.before : r.date < FirstOfMonthBack(today, 5) => r \notin txns
        /\ \A r \in obs.before : r.date >= FirstOfMonthBack(today, 5) => r \in txns
        /\ txns \subseteq obs.before

C9_Witness ==
    /\ pc = "returned"
    /\ obs.cleanup = "ok"
    /\ today = MkDate(2026, 7, 31)
    /\ \E r \in obs.before : r.date = MkDate(2026, 2, 1) /\ r \in txns
    /\ \E r \in obs.before : r.date = MkDate(2026, 1, 31) /\ r \notin txns
    /\ \E r \in obs.before : r.date = MkDate(2026, 2, 28) /\ r \in txns

----------------------------------------------------------------------------
(* Properties of the account reconciliation *)

\* handler w has answered a request that repeats, with the same provider
\* answer, the request answered just before it, neither overlapping any other
MadeSameCallTwice(w) ==
    /\ hpc[w] = "done"
    /\ hist = CallOf(hloc[w])
    /\ hloc[w].solo
    /\ hloc[w].prev.solo
    /\ hloc[w].prev.kind = hloc[w].kind
    /\ hloc[w].prev.resp = hloc[w].resp
    /\ \A v \in Workers \ {w} : ~Active(v)

\* C4 as claimed: once the same records were reconciled twice, each of them has
\* exactly one Account row for its (external_id, source), whose name and
\* balance are those of the second call.
C4_ReconcileTwiceYieldsOneRow ==
    \A w \in Workers :
        MadeSameCallTwice(w) =>
            \A r \in SeqToSet(Records(hloc[w].kind, hloc[w].resp)) :
                LET rows == LookupAccount(accounts, r.id, SourceOf(r.path)) IN
                /\ Cardinality(rows) = 1
                /\ \A a \in rows : a.name = NameOf(r) /\ a.balance = r.amount

\* C5: whatever the interleaving of the reconciliation handlers, the committed
\* Account table never holds two rows with the same (external_id, source), nor
\* two rows with the same id.
C5_NoDuplicateAccountPerSource ==
    \A a, b \in accounts :
        /\ (a.external_id = b.external_id /\ a.source = b.source) => a = b
        /\ a.id = b.id => a = b

C5_Witness ==
    \E w1, w2 \in Workers :
        /\ w1 # w2
        /\ hpc[w1] = "done" /\ hpc[w2] = "done"
        /\ hloc[w1].kind = "Coinbase" /\ hloc[w2].kind = "Coinbase"
        /\ ~hloc[w1].solo /\ ~hloc[w2].solo
        /\ hloc[w1].status = 200
        /\ hloc[w2].status = 500
        /\ Cardinality(accounts) = 1
        /\ \E a \in accounts : a.source = "Coinbase" /\ a.external_id = "e2"

----------------------------------------------------------------------------
(* Properties of the category mapping *)

\* C11: _map_category returns the table's bucket of the first token when that
\* token is a key of the table, and "Miscellaneous" for every other input: an
\* unknown first token, an empty list, a null or absent category.  Tokens
\* after the first never matter.
C11_MapCategoryUsesFirstTokenOnly ==
    (out # NULL /\ inp \in Categories) =>
        /\ (inp.kind = "list" /\ inp.tokens # <<>>
                /\ inp.tokens[1] \in DOMAIN PLAID_CATEGORY_TO_BUDGET_BUCKET)
            => out = PLAID_CATEGORY_TO_BUDGET_BUCKET[inp.tokens[1]]
        /\ ~(inp.kind = "list" /\ inp.tokens # <<>>
                /\ inp.tokens[1] \in DOMAIN PLAID_CATEGORY_TO_BUDGET_BUCKET)
            => out = "Miscellaneous"
        /\ inp = CatList(<<"Food and Drink", "Restaurants">>) => out = "Food & Drink"
        /\ inp = CatList(<<"Bogus">>) => out = "Miscellaneous"
        /\ (inp.kind = "list" /\ inp.tokens # <<>>)
            => out = _map_category(CatList(<<inp.tokens[1]>>))

C11_Witness ==
    /\ inp = CatList(<<"Payroll", "Bogus", "Food and Drink">>)
    /\ out = "Income"

----------------------------------------------------------------------------
(* Properties of the portfolio overview *)

Answered == out.status # 0

Holdings(accts) ==
    {a \in accts : a.account_type \in {"investment", "crypto"} /\ a.balance > 0}

HasPrice(a) == \E mp \in prices : mp.symbol = a.account_subtype

PriceOf(a) == (CHOOSE mp \in prices : mp.symbol = a.account_subtype).price_usd

PricedValue(type) ==
    SumAmounts({[id |-> a.id, amount |-> a.balance * PriceOf(a)] :
                    a \in {b \in Holdings(accounts) : b.account_type = type /\ HasPrice(b)}})

\* C12: the overview always answers 200; an investment or crypto account with
\* positive balance is listed with market value balance x price when its symbol
\* has a stored price and with market value 0 and no price when it has none;
\* the investment and crypto totals are the sums over the priced accounts only
\* and the grand total adds the cash and other totals to them; with no stored
\* price at all both totals are 0.
C12_MissingPriceValuesAtZero ==
    Answered =>
        /\ out.status = 200
        /\ accounts # {} =>
            /\ \A a \in Holdings(accounts) :
                \E d \in out.account_details :
                    /\ d.id = a.id
                    /\ HasPrice(a) => /\ d.market_value_usd = a.balance * PriceOf(a)
                                      /\ d.price_usd = {PriceOf(a)}
                    /\ ~HasPrice(a) => d.market_value_usd = 0 /\ d.price_usd = {}
            /\ out.investment_total_usd = PricedValue("investment")
            /\ out.crypto_total_usd = PricedValue("crypto")
            /\ out.total_value_usd = out.cash_total_usd + out.other_assets_total_usd
                                     + PricedValue("investment") + PricedValue("crypto")
            /\ prices = {} => out.investment_total_usd = 0 /\ out.crypto_total_usd = 0

C12_Witness ==
    /\ Answered
    /\ {a.id : a \in Holdings(accounts)} = {2, 3, 4}
    /\ {mp.symbol : mp \in prices} = {"AAPL", "MSFT"}
    /\ out.investment_total_usd = 8
    /\ out.crypto_total_usd = 0
    /\ \E d \in out.account_details : d.id = 4 /\ d.market_value_usd = 0

LoanAccounts(accts) == {a \in accts : a.account_type = "loan"}

\* C13: total_value_usd is the sum of the cash, investment, crypto and other
\* totals; loan balances add up in loan_total_usd only, so the overview of the
\* same tables with any loan account's balance changed has the same
\* total_value_usd.
C13_TotalExcludesLoans ==
    (Answered /\ accounts # {}) =>
        /\ out.total_value_usd = out.cash_total_usd + out.investment_total_usd
                                 + out.crypto_total_usd + out.other_assets_total_usd
        /\ out.loan_total_usd =
                SumAmounts({[id |-> a.id, amount |-> a.balance] :
                                a \in {b \in LoanAccounts(accounts) : b.balance > 0}})
        /\ \A a \in LoanAccounts(accounts) : \A b \in 0..4 :
                Overview((accounts \ {a}) \cup {[a EXCEPT !.balance = b]},
                         prices).total_value_usd = out.total_value_usd

C13_Witness ==
    /\ Answered
    /\ \E a \in LoanAccounts(accounts) : a.balance = 3
    /\ out.loan_total_usd = 3
    /\ out.cash_total_usd = 2
    /\ out.total_value_usd = 3

\* the stored prices that valued a listed account
PricesUsed ==
    {mp \in prices : \E a \in Holdings(accounts) : a.account_subtype = mp.symbol}

\* C14 as claimed: prices_as_of is the oldest last_updated among the prices
\* that valued an account of the snapshot, and is not set when none did.
C14_PricesAsOfOldestUsedPrice ==
    (Answered /\ accounts # {}) =>
        out.prices_as_of = IF PricesUsed = {} THEN {}
                           ELSE {MinOf({mp.last_updated : mp \in PricesUsed})}

----------------------------------------------------------------------------
(* MarketDataService: the class-level price cache and the upstream request *)

CACHE_TTL == 300

MaxClock == 451

\* seconds that pass between two calls
Steps == {150, 301}

StockSymbols == {"AAPL"}
CryptoSymbols == {"BTC", "BTC-USD"}

\* symbol.upper().replace('-USD', '')
NormalizeSymbol(symbol) ==
    CASE symbol \in {"BTC-USD", "btc-usd", "btc"} -> "BTC"
      [] OTHER -> symbol

\* f"stock_{symbol}" and f"crypto_{normalized_symbol}_{target_currency}"
StockKey(symbol) == <<"stock", symbol>>
CryptoKey(symbol) == <<"crypto", NormalizeSymbol(symbol), "USD">>

\* what session.get, raise_for_status and response.json() can produce:
\*   timeout, network      the request raises Timeout / another RequestException
\*   undecodable           response.json() raises a ValueError
\*   empty                 {} or null
\*   error_message, note   an object with the key "Error Message" / "Note"
\*   number                a JSON number such as 5
\*   no_quote              an object without the quote key
\*   quote_null            {quote key: null}
\*   quote_empty           {quote key: {}}
\*   quote_text            {quote key: "unavailable"}
\*   quote                 {quote key: {price field: price}}; price NULL when
\*                         the object has no price field
\* where the quote key is "Global Quote" for a stock and "Realtime Currency
\* Exchange Rate" for a crypto symbol
PriceStrings == {"1", "2", "abc"}

Resp(kind, price) == [kind |-> kind, price |-> price]

UpstreamResponses ==
    {Resp(k, NULL) : k \in {"timeout", "network", "undecodable", "empty",
                            "error_message", "note", "number", "no_quote",
                            "quote_null", "quote_empty", "quote_text"}}
        \cup {Resp("quote", p) : p \in PriceStrings \cup {NULL}}

\* float(price_str): a ValueError for a string outside the domain
ToFloat == [s \in {"1", "2"} |-> IF s = "1" THEN 1 ELSE 2]

NeverExpired(e, t) == FALSE

EntryExpired(e, t) == t - e.at > CACHE_TTL

_clear_expired_cache(c, t) == {e \in c : ~EntryExpired(e, t)}

AlwaysMiss(c, key) == {}

CachedFor(c, key) == {e \in c : e.key = key}

\* the returned data (NoData for None), or raised for an exception that
\* leaves _make_request
_make_request(resp) ==
    CASE resp.kind \in {"timeout", "network", "undecodable"} ->
            [raised |-> FALSE, data |-> NoData]
      [] resp.kind = "empty" -> [raised |-> FALSE, data |-> NoData]
      \* "Error Message" in 5 is a TypeError, which no except clause names
      [] resp.kind = "number" -> [raised |-> TRUE, data |-> NoData]
      [] resp.kind \in {"error_message", "note"} -> [raised |-> FALSE, data |-> NoData]
      [] OTHER -> [raised |-> FALSE, data |-> resp]

\* lines 83-97 and 118-132; truthy is TRUE where the condition also requires
\* data[quote key] to be truthy (get_stock_price only). value is {price}, or
\* {} for None
ExtractPrice(data, truthy) ==
    CASE data.kind \in {"none", "no_quote"} -> [raised |-> FALSE, value |-> {}]
      \* None.get is an AttributeError, outside (ValueError, TypeError)
      [] data.kind = "quote_null" -> [raised |-> ~truthy, value |-> {}]
      [] data.kind = "quote_empty" -> [raised |-> FALSE, value |-> {}]
      \* "unavailable".get is an AttributeError
      [] data.kind = "quote_text" -> [raised |-> TRUE, value |-> {}]
      [] OTHER ->
            IF data.price \in DOMAIN ToFloat
            THEN [raised |-> FALSE, value |-> {ToFloat[data.price]}]
            ELSE [raised |-> FALSE, value |-> {}]

\* the body shared by get_stock_price and get_crypto_price, called at time t
\* when the upstream would answer resp
LookupPrice(c, t, key, resp, truthy) ==
    LET live == _clear_expired_cache(c, t)
        hit == CachedFor(live, key)
    IN  IF hit # {}
        THEN [cache |-> live, value |-> {e.price : e \in hit},
              raised |-> FALSE, requests |-> 0]
        ELSE LET r == _make_request(resp)
                 x == ExtractPrice(r.data, truthy)
             IN  IF r.raised
                 THEN [cache |-> live, value |-> {}, raised |-> TRUE, requests |-> 1]
                 ELSE [cache |-> live \cup {[key |-> key, at |-> t, price |-> p] :
                                                p \in x.value},
                       value |-> x.value, raised |-> x.raised, requests |-> 1]

get_stock_price(c, t, symbol, resp) ==
    LookupPrice(c, t, StockKey(symbol), resp, TRUE)

get_crypto_price(c, t, symbol, resp) ==
    LookupPrice(c, t, CryptoKey(symbol), resp, FALSE)

\* the record of a call, and of the call before it
CallRecord(key, resp, r) ==
    [key |-> key, at |-> now, before |-> {e \in cache : e.key = key},
     resp |-> resp, value |-> r.value, raised |-> r.raised,
     requests |-> r.requests,
     prior |-> [key |-> mkt.key, at |-> mkt.at,
                fetched |-> mkt.requests = 1 /\ mkt.value # {}]]

Tick ==
    \E d \in Steps :
        /\ now + d <= MaxClock
        /\ now' = now + d
        /\ UNCHANGED <<syncVars, hpc, hloc, nreq, hist>>
        /\ UNCHANGED <<job, prices, cache, mkt, inp, out, plaid_items, scheduler>>

GetStockPrice ==
    \E symbol \in StockSymbols, resp \in UpstreamResponses :
        LET r == get_stock_price(cache, now, symbol, resp)
        IN  /\ cache' = r.cache
            /\ mkt' = CallRecord(StockKey(symbol), resp, r)
            /\ UNCHANGED <<syncVars, hpc, hloc, nreq, hist>>
            /\ UNCHANGED <<job, prices, now, inp, out, plaid_items, scheduler>>

GetCryptoPrice ==
    \E symbol \in CryptoSymbols, resp \in UpstreamResponses :
        LET r == get_crypto_price(cache, now, symbol, resp)
        IN  /\ cache' = r.cache
            /\ mkt' = CallRecord(CryptoKey(symbol), resp, r)
            /\ UNCHANGED <<syncVars, hpc, hloc, nreq, hist>>
            /\ UNCHANGED <<job, prices, now, inp, out, plaid_items, scheduler>>

InitCache == Boot(Today0, ItemIds, SyncAccounts, {}, AnyFeed)

NextCache ==
    \/ Tick
    \/ GetStockPrice
    \/ GetCryptoPrice

SpecCache == InitCache /\ [][NextCache]_vars

----------------------------------------------------------------------------
(* Properties of the price cache *)

Called == mkt.key # NoKey

StaleBefore == {e \in mkt.before : mkt.at - e.at > CACHE_TTL}

FreshBefore == {e \in mkt.before : mkt.at - e.at <= CACHE_TTL}

\* the price the upstream answer carries, if it carries one
UpstreamPrice ==
    IF mkt.resp.kind = "quote" /\ mkt.resp.price \in DOMAIN ToFloat
    THEN {ToFloat[mkt.resp.price]} ELSE {}

\* C15: a price call never returns a cached price that was fetched more than
\* CACHE_TTL seconds before the call: when the key's entry is that old the call
\* asks the upstream and returns the upstream's price or None, and a price
\* served without an upstream request comes from an entry at most CACHE_TTL old.
C15_ExpiredEntryIsNeverServed ==
    Called =>
        /\ StaleBefore # {} =>
                /\ mkt.requests = 1
                /\ mkt.value = {} \/ mkt.value = UpstreamPrice
        /\ mkt.requests = 0 =>
                \E e \in FreshBefore : mkt.value = {e.price}

C15_Witness ==
    /\ Called
    /\ \E e \in StaleBefore : e.price = 1 /\ mkt.at - e.at = 301
    /\ mkt.value = {2}
    /\ mkt.requests = 1

\* C16: a price call makes one upstream request when its key has no unexpired
\* entry and none when it has one; a call within CACHE_TTL of a call for the
\* same key that fetched a price makes no request.
C16_OneRequestPerMiss ==
    Called =>
        /\ mkt.requests = IF FreshBefore # {} THEN 0 ELSE 1
        /\ (/\ mkt.prior.key = mkt.key
            /\ mkt.prior.fetched
            /\ mkt.at - mkt.prior.at <= CACHE_TTL) => mkt.requests = 0

C16_Witness ==
    /\ Called
    /\ mkt.prior.key = mkt.key
    /\ mkt.prior.fetched
    /\ mkt.at - mkt.prior.at = CACHE_TTL
    /\ mkt.requests = 0
    /\ mkt.value # {}

\* C17 as claimed: a call whose upstream request does not yield a price returns
\* None without raising and leaves no cache entry for its key.
C17_UpstreamFailureReturnsNone ==
    (Called /\ mkt.requests = 1 /\ UpstreamPrice = {}) =>
        /\ ~mkt.raised
        /\ mkt.value = {}
        /\ CachedFor(cache, mkt.key) = {}

----------------------------------------------------------------------------
(* Properties of the job's loop over the PlaidItems *)

TimesInvoked(it) == Cardinality({i \in 1..Len(invoked) : invoked[i].item = it})

LoopOver == pc \in {"loop", "returned"} /\ (queue = <<>> \/ obs.result = "Raised")

----------------------------------------------------------------------------
(* background_sync_job: the price phase, followed by the transaction phase *)

\* lines 28-39: the distinct (normalized symbol, account type) pairs of the
\* investment and crypto accounts that have a subtype
SymbolsToFetch(accts) ==
    {<<NormalizeSymbol(a.account_subtype), a.account_type>> :
        a \in {b \in accts : /\ b.account_type \in {"investment", "crypto"}
                             /\ b.account_subtype # NULL}}

IntervalSeconds == 1800

MaxCycles == 2

\* the interval trigger of app.py line 164 starts the next execution, 30
\* minutes after the one before (a cycle is explored only when the
\* invocations of its transaction phase fit the bound)
JobScheduledAgain ==
    /\ job.at \in {"returned", "done"}
    /\ job.cycle < MaxCycles
    /\ syncs + Len(ItemsToSync(cursors)) <= MaxSyncs
    /\ job' = [NoJob EXCEPT !.at = "scheduled", !.stored = job.stored,
                            !.cycle = job.cycle]
    /\ now' = now + IntervalSeconds
    /\ UNCHANGED <<syncVars, hpc, hloc, nreq, hist>>
    /\ UNCHANGED <<prices, cache, mkt, inp, out, plaid_items, scheduler>>

\* the job starts: lines 23-47 return when the market data service is not
\* registered, when the Account query raises and when no symbol is found
JobBegin ==
    /\ job.at = "scheduled"
    /\ \E md_service \in BOOLEAN, query_raises \in BOOLEAN :
        LET symbols_to_fetch == SymbolsToFetch(accounts)
        IN  job' = IF ~md_service \/ query_raises \/ symbols_to_fetch = {}
                   THEN [job EXCEPT !.at = "returned", !.cycle = @ + 1]
                   ELSE [job EXCEPT !.at = "prices", !.pairs = symbols_to_fetch,
                                    !.total = Cardinality(symbols_to_fetch),
                                    !.cycle = @ + 1]
    /\ UNCHANGED <<syncVars, hpc, hloc, nreq, hist>>
    /\ UNCHANGED <<prices, cache, now, mkt, inp, out, plaid_items, scheduler>>

\* what the upstream answers during a job
JobResponses ==
    {Resp("quote", "1"), Resp("quote", "2"), Resp("note", NULL), Resp("quote_text", NULL)}

\* variant that adds a row whether or not the symbol has one
InsertPrice(tbl, symbol, p, t) == tbl \cup {PriceRow(symbol, p, t)}

\* lines 66-77: the row of the symbol is overwritten (price_usd, last_updated)
\* or, when there is none, created
StorePrice(tbl, symbol, p, t) ==
    {row \in tbl : row.symbol # symbol} \cup {PriceRow(symbol, p, t)}

\* lines 94-96: the pause after a fetch; time.sleep(13) is commented out, so
\* the iteration ends without one
Pace(events) == events

PriceKeys(tbl) == {[symbol |-> row.symbol, price_usd |-> row.price_usd] : row \in tbl}

\* lines 55-92: one iteration of the loop over symbols_to_fetch; commit_ok is
\* whether db.session.commit() of line 77 succeeds
FetchAndStorePrice ==
    /\ job.at = "prices"
    /\ \E pair \in job.pairs, resp \in JobResponses, commit_ok \in BOOLEAN :
        LET symbol == pair[1]
            r == IF pair[2] = "investment"
                 THEN get_stock_price(cache, now, symbol, resp)
                 ELSE get_crypto_price(cache, now, symbol, resp)
            key == IF pair[2] = "investment" THEN StockKey(symbol) ELSE CryptoKey(symbol)
            \* line 63; an exception of the getter is caught at line 90
            fetched == ~r.raised /\ r.value # {}
            mp == {row \in prices : row.symbol = symbol}
        IN  /\ fetched \/ commit_ok
            /\ cache' = r.cache
            /\ mkt' = CallRecord(key, resp, r)
            /\ prices' = IF fetched /\ commit_ok
                         THEN StorePrice(prices, symbol, CHOOSE p \in r.value : TRUE, now)
                         ELSE prices
            /\ job' = [job EXCEPT
                        !.pairs = @ \ {pair},
                        !.attempted = Append(@, pair),
                        \* lines 71 and 76 count before the commit of line 77
                        !.updated = @ + IF fetched /\ mp # {} THEN 1 ELSE 0,
                        !.created = @ + IF fetched /\ mp = {} THEN 1 ELSE 0,
                        \* lines 81, 85, 88 and 92
                        !.failed = @ + IF ~fetched \/ ~commit_ok THEN 1 ELSE 0,
                        !.fetches = Pace(IF r.requests = 1 THEN Append(@, "request") ELSE @),
                        !.stored = IF fetched /\ commit_ok
                                   THEN {k \in @ : k.symbol # symbol}
                                            \cup {[symbol |-> symbol, price_usd |-> p] :
                                                        p \in r.value}
                                   ELSE @]
    /\ UNCHANGED <<syncVars, hpc, hloc, nreq, hist>>
    /\ UNCHANGED <<now, inp, out, plaid_items, scheduler>>

JobAccounts ==
    {Holder(2, "investment", "AAPL", 2), Holder(4, "crypto", "BTC", 1),
     Holder(8, "crypto", "BTC-USD", 1)}

InitJob ==
    /\ \E accts \in SUBSET JobAccounts, items \in {{"item1"}, ItemIds} :
            BootCore(Today0, items, SyncAccounts \cup accts, {}, QuietFeed)
    /\ prices \in {{}, {PriceRow("AAPL", 3, 0)}}
    /\ job = [NoJob EXCEPT !.at = "scheduled", !.stored = PriceKeys(prices)]
    /\ cache = {}
    /\ now = 0
    /\ mkt = NoPriceCall /\ plaid_items = {} /\ scheduler = NoScheduler
    /\ inp = NULL
    /\ out = NULL

NextJob ==
    \/ JobScheduledAgain
    \/ JobBegin
    \/ FetchAndStorePrice
    \/ TransactionPhaseBegin
    \/ SyncBegin
    \/ FetchFails
    \/ FetchAndApplyPage
    \/ CommitPage
    \/ UpdateCursor
    \/ CleanupAndReturn
    \/ TransactionPhaseEnd

SpecJob == InitJob /\ [][NextJob]_vars

----------------------------------------------------------------------------
(* Properties of the background job *)

JobOver == job.at \in {"returned", "done"}

\* C19 as claimed: the transaction phase never starts before the price phase
\* is over, and every execution of the job that has ended has handed every
\* stored PlaidItem to sync_transactions_for_item.
C19_EveryCycleRunsBothPhases ==
    /\ job.at = "transactions" => job.pairs = {}
    /\ JobOver => \A it \in DOMAIN cursors : TimesInvoked(it) = 1

TimesAttempted(pair) ==
    Cardinality({i \in 1..Len(job.attempted) : job.attempted[i] = pair})

\* C20 as claimed: when the price phase is over every pair of the
\* investment/crypto accounts was attempted exactly once and
\* created_count + updated_count + failed_count is the number of pairs.
C20_CountsAddUpToPairs ==
    job.at \in {"transactions", "done"} =>
        /\ \A pair \in SymbolsToFetch(accounts) : TimesAttempted(pair) = 1
        /\ Len(job.attempted) = Cardinality(SymbolsToFetch(accounts))
        /\ job.created + job.updated + job.failed = Cardinality(SymbolsToFetch(accounts))

\* C21 as claimed: between two consecutive upstream price requests of a cycle
\* the job pauses.
C21_PauseBetweenPriceRequests ==
    \A i \in 1..(Len(job.fetches) - 1) :
        ~(job.fetches[i] = "request" /\ job.fetches[i + 1] = "request")

----------------------------------------------------------------------------
(* Properties of the cursor commit *)

CursorCommitFailed == obs.failure = "cursor_commit"

\* C30: when every page was committed and the commit that stores the cursor
\* fails, the invocation returns False without running the cleanup, the
\* item's stored cursor is the one the invocation started with, and neither
\* the failing commit nor the rest of the invocation changes the committed
\* Transaction table.
C30_FailedCursorCommit ==
    /\ []((CursorCommitFailed /\ pc = "returned") =>
            /\ obs.result = "False"
            /\ obs.cleanup = "none"
            /\ obs.committed >= 1
            /\ cursors[loc.item] = obs.start_cursor)
    /\ [][(CursorCommitFailed' /\ pc \in {"cursor", "cleanup"}) =>
            (txns' = txns /\ cursors' = cursors)]_vars

C30_Witness ==
    /\ CursorCommitFailed
    /\ pc = "returned"
    /\ obs.result = "False"
    /\ obs.committed = 2
    /\ txns # {}
    /\ obs.committed_next # ""
    /\ cursors[loc.item] = NULL

----------------------------------------------------------------------------
(* Properties of the provider namespaces *)

\* C29 as claimed: a reconciliation request that overlaps no other request
\* succeeds, and every record it was to create has an Account row of its own
\* (external_id, source) afterwards, whatever rows of other sources carry the
\* same external_id.
C29_ProviderNamespacesIndependent ==
    \A w \in Workers :
        (hpc[w] = "done" /\ hloc[w].solo) =>
            /\ hloc[w].status = 200
            /\ \A r \in SeqToSet(Records(hloc[w].kind, hloc[w].resp)) :
                    Creates(r) => LookupAccount(accounts, r.id, SourceOf(r.path)) # {}

----------------------------------------------------------------------------
(* Properties of reconciliation on existing rows *)

SameIdentity(a, b) ==
    /\ a.id = b.id
    /\ a.source = b.source
    /\ a.external_id = b.external_id
    /\ a.account_type = b.account_type
    /\ a.account_subtype = b.account_subtype
    /\ a.loan_monthly_payment = b.loan_monthly_payment
    /\ a.loan_original_amount = b.loan_original_amount
    /\ a.loan_interest_rate = b.loan_interest_rate

\* C27: no step of a reconciliation request removes an Account row: every id
\* of the Account table is still an id of the table after the step, also when
\* the provider's answer no longer reports the account.
C27_AccountsAreNeverRemoved ==
    [][{a.id : a \in accounts} \subseteq {a.id : a \in accounts'}]_vars

C27_Witness ==
    /\ hist.kind = "Robinhood"
    /\ hist.resp = NoResp
    /\ hist.status = 200
    /\ \E a \in accounts : a.source = "Robinhood" /\ a.external_id = "e2"

\* C28: the row a handler has reconciled an existing Account into has the
\* Account's id, source, external_id, type, subtype and loan fields, and is the
\* Account itself when it is a Plaid account typed investment; a commit changes
\* none of these fields of a stored row.
C28_ReconcileKeepsIdentity ==
    /\ [](\A w \in Workers : \A u \in hloc[w].updates : \A a \in accounts :
            a.id = u.id =>
                /\ SameIdentity(a, u)
                /\ (a.source = "Plaid" /\ a.account_type = "investment") => u = a)
    /\ [][\A a \in accounts : \A b \in accounts' : b.id = a.id => SameIdentity(a, b)]_vars

C28_Witness ==
    \E w \in Workers : \E u \in hloc[w].updates :
        /\ u.id = PlaidLoan.id
        /\ PlaidLoan \in accounts
        /\ u.balance # PlaidLoan.balance
        /\ u.name = "Main"
        /\ u.loan_monthly_payment = "250.00"

----------------------------------------------------------------------------
(* sync_plaid_accounts over several PlaidItems, one request at a time *)

\* what accounts_get does for an item: it returns, or raises an ApiException
\* whose body is a JSON string ("str"), a mapping ("dict") or missing ("none")
Answer(raises, body, error_code, resp) ==
    [raises |-> raises, body |-> body, error_code |-> error_code, resp |-> resp]

ErrorCodes == {"ITEM_LOGIN_REQUIRED", "INTERNAL_SERVER_ERROR"}

AccountIdOf(item) == IF item = "item1" THEN "e1" ELSE "e3"

ItemAnswers(item) ==
    {Answer(FALSE, "none", NULL,
            [NoResp EXCEPT !.accounts = <<PlaidAccount(AccountIdOf(item), "Main",
                                                       "depository", 1)>>]),
     Answer(FALSE, "none", NULL,
            [NoResp EXCEPT !.accounts = <<PlaidAccount(AccountIdOf(item), "Main",
                                                       "depository", 1)>>,
                           !.holdings = <<Holding("e2", "AAPL", "Apple Inc", 1)>>]),
     Answer(TRUE, "none", NULL, NoResp)}
    \cup {Answer(TRUE, b, c, NoResp) : b \in {"str", "dict"}, c \in ErrorCodes}

\* lines 249-255: error_data.get('error_code').  routes.py does not import
\* json, so json.loads(e.body) of line 252 raises NameError, which the bare
\* except of line 254 swallows: error_data stays {} for a string body
ErrorCodeRead(a) ==
    CASE a.body = "dict" -> a.error_code
      [] OTHER -> NULL

RECURSIVE ReconcileAll(_, _, _)
ReconcileAll(h, tbl, records) ==
    IF records = <<>> THEN h
    ELSE ReconcileAll(ReconcileRecord(h, tbl, Head(records)), tbl, Tail(records))

NoSync ==
    [at |-> "start", todo |-> <<>>, h |-> NoHandler, visited |-> <<>>,
     holdings_fetched |-> {}, items_processed |-> 0, items_failed |-> 0,
     items_requiring_relink |-> <<>>, status |-> 0]

\* lines 191-195: the request arrives and the items are read
PlaidSyncBegin ==
    /\ out.at = "start"
    /\ out' = [out EXCEPT !.at = "loop", !.todo = ItemsToSync(cursors)]
    /\ UNCHANGED <<syncVars, hpc, hloc, nreq, hist>>
    /\ UNCHANGED <<job, prices, cache, now, mkt, inp, plaid_items, scheduler>>

\* lines 197-340: one iteration of the loop over the items
PlaidSyncItem ==
    /\ out.at = "loop"
    /\ LET item == Head(out.todo)
           a == inp[item]
           relink == a.raises /\ a.body # "none"
                        /\ ErrorCodeRead(a) = "ITEM_LOGIN_REQUIRED"
           h1 == IF a.raises THEN out.h ELSE ReconcileAll(out.h, accounts, a.resp.accounts)
           \* line 261: holdings are fetched only if accounts_get succeeded
           h2 == IF a.raises THEN h1 ELSE ReconcileAll(h1, accounts, a.resp.holdings)
       IN  out' = [out EXCEPT
                    !.todo = Tail(@),
                    !.at = IF Tail(out.todo) = <<>> THEN "commit" ELSE "loop",
                    !.h = h2,
                    !.visited = Append(@, item),
                    !.holdings_fetched = IF a.raises THEN @ ELSE @ \cup {item},
                    !.items_failed = @ + IF a.raises THEN 1 ELSE 0,
                    !.items_processed = @ + IF a.raises THEN 0 ELSE 1,
                    !.items_requiring_relink = IF relink THEN Append(@, item) ELSE @]
    /\ UNCHANGED <<syncVars, hpc, hloc, nreq, hist>>
    /\ UNCHANGED <<job, prices, cache, now, mkt, inp, plaid_items, scheduler>>

\* lines 344-365: the commit and the summary, or rollback and 500
PlaidSyncCommit ==
    /\ out.at = "commit"
    /\ IF ViolatesUnique(accounts, out.h.staged)
       THEN /\ out' = [out EXCEPT !.at = "done", !.status = 500, !.h = NoHandler]
            /\ UNCHANGED accounts
       ELSE /\ accounts' = InsertAll(ApplyUpdates(accounts, out.h.updates), out.h.staged)
            /\ out' = [out EXCEPT !.at = "done", !.status = 200, !.h = NoHandler]
    /\ UNCHANGED <<today, txns, sess, cursors, feed, queue, pc, loc, page, obs, ideal, syncs, hpc, hloc, nreq, hist, invoked>>
    /\ UNCHANGED <<job, prices, cache, now, mkt, inp, plaid_items, scheduler>>

InitPlaidSync ==
    /\ BootCore(Today0, ItemIds, {}, {}, AnyFeed)
    /\ job = NoJob /\ prices = {} /\ cache = {} /\ now = 0 /\ mkt = NoPriceCall /\ plaid_items = {} /\ scheduler = NoScheduler
    /\ \E a1 \in ItemAnswers("item1"), a2 \in ItemAnswers("item2") :
            inp = [item \in ItemIds |-> IF item = "item1" THEN a1 ELSE a2]
    /\ out = NoSync

NextPlaidSync ==
    \/ PlaidSyncBegin
    \/ PlaidSyncItem
    \/ PlaidSyncCommit

SpecPlaidSync == InitPlaidSync /\ [][NextPlaidSync]_vars

----------------------------------------------------------------------------
(* Properties of the re-link outcome *)

NeedsRelink(a) == a.raises /\ a.body \in {"str", "dict"} /\ a.error_code = "ITEM_LOGIN_REQUIRED"

InSeq(q, x) == \E i \in DOMAIN q : q[i] = x

\* C25 as claimed: when the request has answered, every item whose
\* accounts_get failed with ITEM_LOGIN_REQUIRED, in a string body or in a
\* mapping, is listed in items_requiring_relink and had no holdings fetched,
\* and every other item was still processed: each item was visited, and the
\* account of an item whose accounts_get succeeded is stored.
C25_RelinkIsReported ==
    out.at = "done" =>
        /\ out.status = 200
        /\ \A item \in ItemIds :
            /\ InSeq(out.visited, item)
            /\ NeedsRelink(inp[item]) =>
                    /\ InSeq(out.items_requiring_relink, item)
                    /\ item \notin out.holdings_fetched
            /\ ~inp[item].raises =>
                    LookupAccount(accounts, AccountIdOf(item), "Plaid") # {}

----------------------------------------------------------------------------
(* exchange_public_token: the PlaidItem table *)

PlaidItemRow(id, item_id, access_token, sync_cursor) ==
    [id |-> id, item_id |-> item_id, access_token |-> access_token,
     user_id |-> "finsmar-local-user-01", sync_cursor |-> sync_cursor]

AccessTokens == {"access-a", "access-b"}

\* what item_public_token_exchange answers: an ApiException, or the pair
\* (access_token, item_id)
ExchangeResponses ==
    {[raises |-> TRUE, access_token |-> NULL, item_id |-> NULL]}
        \cup {[raises |-> FALSE, access_token |-> t, item_id |-> i] :
                t \in AccessTokens, i \in ItemIds}

\* variant that never finds a stored item
FindNothing(tbl, item_id) == {}

\* line 115: PlaidItem.query.filter_by(item_id=item_id).first()
FindItem(tbl, item_id) == {row \in tbl : row.item_id = item_id}

\* variant that re-creates the item's row content, losing its cursor
ResetItem(row, access_token) ==
    [row EXCEPT !.access_token = access_token, !.sync_cursor = NULL]

\* line 118: existing_item.access_token = access_token
RotateToken(row, access_token) == [row EXCEPT !.access_token = access_token]

\* the unique index on plaid_item.item_id (models.py line 67)
ItemIdTaken(tbl, item_id) == \E row \in tbl : row.item_id = item_id

NextItemRowId(tbl) ==
    IF tbl = {} THEN 1
    ELSE (CHOOSE m \in {row.id : row \in tbl} : \A row \in tbl : row.id <= m) + 1

NoExchange == [status |-> 0, item_id |-> NULL, access_token |-> NULL, before |-> {}]

\* the whole handler, lines 89-171; commit_ok is whether flush and commit of
\* lines 134 and 139 succeed for a reason other than the unique index
ExchangePublicToken ==
    /\ \E has_token \in BOOLEAN, resp \in ExchangeResponses, commit_ok \in BOOLEAN :
        LET existing_item == FindItem(plaid_items, resp.item_id)
            answer(status) == [status |-> status, item_id |-> resp.item_id,
                               access_token |-> resp.access_token,
                               before |-> plaid_items]
        IN  IF ~has_token
            THEN /\ out' = [NoExchange EXCEPT !.status = 400, !.before = plaid_items]
                 /\ UNCHANGED plaid_items
            ELSE IF resp.raises
            THEN /\ out' = answer(500)
                 /\ UNCHANGED plaid_items
            ELSE IF existing_item # {}
            THEN IF commit_ok
                 THEN /\ plaid_items' =
                            {IF row \in existing_item
                             THEN RotateToken(row, resp.access_token)
                             ELSE row : row \in plaid_items}
                      /\ out' = answer(200)
                 ELSE /\ out' = answer(500)
                      /\ UNCHANGED plaid_items
            ELSE IF commit_ok /\ ~ItemIdTaken(plaid_items, resp.item_id)
                 THEN /\ plaid_items' = plaid_items \cup
                            {PlaidItemRow(NextItemRowId(plaid_items), resp.item_id,
                                          resp.access_token, NULL)}
                      /\ out' = answer(200)
                 ELSE /\ out' = answer(500)
                      /\ UNCHANGED plaid_items
    /\ UNCHANGED <<syncVars, hpc, hloc, nreq, hist>>
    /\ UNCHANGED <<job, prices, cache, now, mkt, inp, scheduler>>

InitExchange ==
    /\ BootCore(Today0, ItemIds, SyncAccounts, {}, AnyFeed)
    /\ job = NoJob /\ prices = {} /\ cache = {} /\ now = 0 /\ mkt = NoPriceCall
    /\ scheduler = NoScheduler
    /\ inp = NULL
    /\ out = NoExchange
    /\ plaid_items \in {{}, {PlaidItemRow(1, "item1", "access-old", "c1")}}

NextExchange == ExchangePublicToken

SpecExchange == InitExchange /\ [][NextExchange]_vars

----------------------------------------------------------------------------
(* Properties of the PlaidItem table *)

\* C26: no two PlaidItem rows share an item_id; an exchange that answers 200
\* for an item_id already stored leaves the number of rows as it was, stores
\* the new access_token on that item's row and changes nothing else of it
\* (its id and sync_cursor stay), and leaves every other row as it was.
C26_ItemIdUniqueAndRotatedInPlace ==
    /\ [](\A r1, r2 \in plaid_items : r1.item_id = r2.item_id => r1 = r2)
    /\ [][(out'.status = 200 /\ ItemIdTaken(plaid_items, out'.item_id)) =>
            /\ Cardinality(plaid_items') = Cardinality(plaid_items)
            /\ \A row \in plaid_items :
                IF row.item_id = out'.item_id
                THEN [row EXCEPT !.access_token = out'.access_token] \in plaid_items'
                ELSE row \in plaid_items']_vars

C26_Witness ==
    /\ out.status = 200
    /\ out.item_id = "item1"
    /\ PlaidItemRow(1, "item1", "access-old", "c1") \in out.before
    /\ PlaidItemRow(1, "item1", "access-b", "c1") \in plaid_items
    /\ Cardinality(plaid_items) = 2

----------------------------------------------------------------------------
(* The scheduler of create_app and the manual trigger routes *)

\* app.py line 164: add_job(..., id='', ...); APScheduler stores a job added
\* with an empty id under an id it generates, so no route knows the id
RegisteredJobId == ""

\* add_job passes no max_instances: APScheduler's default of one instance
MaxInstances == 1

MaxFirings == 4

\* variant that starts an instance whatever is executing
AlwaysStart(executing) == TRUE

\* the executor refuses a run when max_instances instances are executing
MayStart(executing) == executing < MaxInstances

Firings == scheduler.fired + scheduler.skipped

\* the interval trigger's next_run_time is reached
IntervalElapses ==
    /\ scheduler.running
    /\ scheduler.due = {}
    /\ Firings < MaxFirings
    /\ scheduler' = [scheduler EXCEPT !.due = scheduler.jobs]
    /\ UNCHANGED <<syncVars, hpc, hloc, nreq, hist>>
    /\ UNCHANGED <<job, prices, cache, now, mkt, inp, out, plaid_items>>

\* the scheduler thread submits the due job to the executor, which runs it or
\* skips the run
SchedulerWakes ==
    /\ scheduler.running
    /\ scheduler.due # {}
    /\ scheduler' =
        IF MayStart(scheduler.executing)
        THEN [scheduler EXCEPT !.due = {}, !.executing = @ + 1, !.fired = @ + 1]
        ELSE [scheduler EXCEPT !.due = {}, !.skipped = @ + 1]
    /\ UNCHANGED <<syncVars, hpc, hloc, nreq, hist>>
    /\ UNCHANGED <<job, prices, cache, now, mkt, inp, out, plaid_items>>

\* an execution of background_sync_job returns
JobFinishes ==
    /\ scheduler.executing > 0
    /\ scheduler' = [scheduler EXCEPT !.executing = @ - 1]
    /\ UNCHANGED <<syncVars, hpc, hloc, nreq, hist>>
    /\ UNCHANGED <<job, prices, cache, now, mkt, inp, out, plaid_items>>

\* the body shared by the two trigger routes: 503 when the scheduler is not
\* running, modify_job(job_id, next_run_time=now) and 202, 500 when modify_job
\* raises (it raises JobLookupError for an id that is not registered)
Triggered(route, job_id) ==
    IF ~scheduler.running
    THEN [scheduler EXCEPT
            !.response = [route |-> route, status |-> 503, job_id |-> job_id]]
    ELSE IF job_id \in scheduler.jobs
    THEN [scheduler EXCEPT
            !.due = {job_id},
            !.response = [route |-> route, status |-> 202, job_id |-> job_id]]
    ELSE [scheduler EXCEPT
            !.response = [route |-> route, status |-> 500, job_id |-> job_id]]

TriggerTransactionSync ==
    /\ scheduler' = Triggered("/api/plaid/sync_transactions", "background_sync_job")
    /\ UNCHANGED <<syncVars, hpc, hloc, nreq, hist>>
    /\ UNCHANGED <<job, prices, cache, now, mkt, inp, out, plaid_items>>

TriggerMarketSync ==
    /\ scheduler' = Triggered("/api/market/sync", "price_fetch_job")
    /\ UNCHANGED <<syncVars, hpc, hloc, nreq, hist>>
    /\ UNCHANGED <<job, prices, cache, now, mkt, inp, out, plaid_items>>

\* atexit: scheduler.shutdown()
SchedulerShutdown ==
    /\ scheduler.running
    /\ scheduler' = [scheduler EXCEPT !.running = FALSE, !.due = {}]
    /\ UNCHANGED <<syncVars, hpc, hloc, nreq, hist>>
    /\ UNCHANGED <<job, prices, cache, now, mkt, inp, out, plaid_items>>

\* create_app has returned: the job is registered and the scheduler started
InitSched ==
    /\ BootCore(Today0, ItemIds, SyncAccounts, {}, AnyFeed)
    /\ job = NoJob /\ prices = {} /\ cache = {} /\ now = 0 /\ mkt = NoPriceCall
    /\ plaid_items = {}
    /\ inp = NULL
    /\ out = NULL
    /\ scheduler = [NoScheduler EXCEPT !.running = TRUE, !.jobs = {RegisteredJobId}]

NextSched ==
    \/ IntervalElapses
    \/ SchedulerWakes
    \/ JobFinishes
    \/ TriggerTransactionSync
    \/ TriggerMarketSync
    \/ SchedulerShutdown

SpecSched == InitSched /\ [][NextSched]_vars

----------------------------------------------------------------------------
(* Properties of the scheduler *)

\* C23: a manual trigger answered while the scheduler is running is answered
\* 202 and addresses the id under which the periodic job is registered.
C23_TriggerReschedulesRegisteredJob ==
    (scheduler.response.route # "none" /\ scheduler.response.status # 503) =>
        /\ scheduler.response.status = 202
        /\ scheduler.response.job_id \in scheduler.jobs

----------------------------------------------------------------------------
(* Scenario: one item and one upstream page whose records may name an unknown *)
(* account, an unknown transaction, or carry no category                      *)

\* two Plaid accounts; "accX" is the external id of no Account
RecordAccounts ==
    SyncAccounts \cup
    {[id |-> 2, external_id |-> "acc2", source |-> "Plaid", name |-> "Savings",
      balance |-> 1, account_type |-> "depository", account_subtype |-> "savings",
      loan_monthly_payment |-> NULL, loan_original_amount |-> NULL,
      loan_interest_rate |-> NULL]}

\* a record with a category, and records without: key absent, null, empty list
RecordPayloads ==
    {[amount |-> 10, date |-> InWindow, category |-> Food],
     [amount |-> 50, date |-> InWindow, category |-> CatAbsent],
     [amount |-> 30, date |-> InWindow, category |-> CatNull],
     [amount |-> 60, date |-> InWindow, category |-> CatList(<<>>)]}

\* "t3" may be stored already (owned by acc1), "t4" never is
RecordAdded ==
    LET first == {Rec("t1", a, pl) : a \in {"acc1", "accX"}, pl \in RecordPayloads}
        second == {Rec(id, "acc2", [amount |-> 40, date |-> Today0, category |-> Bogus]) :
                        id \in {"t2", "t3"}}
    IN  {<<>>} \cup {<<x>> : x \in first \cup second}
            \cup {<<x, y>> : x \in first, y \in second}
            \cup {<<y, x>> : x \in first, y \in second}

RecordModified ==
    {<<>>, <<Rec("t4", "acc1", [amount |-> 10, date |-> InWindow, category |-> Food])>>}
        \cup {<<Rec("t3", a, pl)>> : a \in {"acc1", "acc2"}, pl \in RecordPayloads}

RecordPages ==
    {p \in [added : RecordAdded, modified : RecordModified,
            removed : {{}, {"t3"}, {"t4"}}, has_more : {FALSE},
            next_cursor : {"c1"}] : WellFormedPage(p)}

InitRecords ==
    \E p \in RecordPages : \E rows \in SUBSET {StoredTxn("t3", InWindow), StoredTxn("t5", Today0)} :
        Boot(Today0, {"item1"}, RecordAccounts, rows, [kind |-> "same", page |-> p])

SpecRecords == InitRecords /\ [][Next]_vars

----------------------------------------------------------------------------
(* Properties of single records *)

\* line 64: the record's account_id is the external_id of some Account
Attributable(r) == \E a \in accounts : a.external_id = r.account_id

\* the page without the added records that no Account can take
WithoutUnattributable(p) == [p EXCEPT !.added = SelectSeq(p.added, Attributable)]

\* a page was requested and applied to the session in this step
PageApplied == pc = "fetch" /\ obs'.fetched = obs.fetched + 1

\* the page applied without raising and waits for its commit
PageStaged == PageApplied /\ pc' = "commit"

\* C31: an added record whose account_id matches no Account creates no
\* Transaction and is not fatal: the page has the outcome of the same page
\* without that record (when that page applies, this one does too, with the
\* same rows), every other added record with a new id is inserted with its
\* own fields, and the commit that follows stores exactly the staged rows.
C31_UnattributableAddIsSkipped ==
    /\ [][PageApplied =>
            LET st == ApplyPage(sess, loc.added_count, WithoutUnattributable(page'),
                                accounts)
            IN  st.raised = "none" => (pc' = "commit" /\ sess' = st.tx)]_vars
    /\ [][PageStaged =>
            \A r \in AddedOf(page') :
                IF Attributable(r)
                THEN HasTxn(sess, r.transaction_id) \/
                        \E t \in sess' : /\ t.plaid_transaction_id = r.transaction_id
                                         /\ t.plaid_account_id = r.account_id
                                         /\ CarriesFieldsOf(t, r)
                ELSE RowsWithId(sess', r.transaction_id) =
                        RowsWithId(sess, r.transaction_id)]_vars
    /\ [][(pc = "commit" /\ obs'.committed = obs.committed + 1) => txns' = sess]_vars

\* the page named an unknown account beside a known one; the sync returned
\* True, the known record's row is stored and the cursor is the page's
C31_Witness ==
    /\ feed.kind = "same"
    /\ feed.page.added = <<Rec("t1", "accX", [amount |-> 10, date |-> InWindow, category |-> Food]),
                           Rec("t2", "acc2", [amount |-> 40, date |-> Today0, category |-> Bogus])>>
    /\ syncs = 1
    /\ pc = "returned"
    /\ obs.result = "True"
    /\ obs.committed = 1
    /\ ~HasTxn(txns, "t1")
    /\ \E t \in txns : t.plaid_transaction_id = "t2" /\ t.account_db_id = 2 /\ t.amount = 40
    /\ cursors["item1"] = "c1"

\* line 86: the modified record's transaction is stored
StoredLocally(r) == HasTxn(sess, r.transaction_id)

\* the page without the modified and removed records that name no stored row
WithoutAbsent(p) ==
    [p EXCEPT !.modified = SelectSeq(p.modified, StoredLocally),
              !.removed = {x \in p.removed : HasTxn(sess, x)}]

\* the transaction ids a page names
Named(p) == SeqIds(p.added) \cup SeqIds(p.modified) \cup p.removed

\* C32: a modified or removed record whose transaction id is not stored is a
\* no-op that is not fatal: the page has the outcome of the same page without
\* it, no row is created for it, and every row the page does not name stays as
\* it was; a removed id that is stored loses its row, and only that row goes;
\* the commit that follows stores exactly the staged rows.
C32_AbsentModifiedOrRemovedIsNoOp ==
    /\ [][PageApplied =>
            LET st == ApplyPage(sess, loc.added_count, WithoutAbsent(page'), accounts)
            IN  st.raised = "none" => (pc' = "commit" /\ sess' = st.tx)]_vars
    /\ [][PageStaged =>
            /\ \A r \in {page'.modified[i] : i \in DOMAIN page'.modified} :
                    ~StoredLocally(r) => ~HasTxn(sess', r.transaction_id)
            /\ \A x \in page'.removed : ~HasTxn(sess', x)
            /\ {t \in sess' : t.plaid_transaction_id \notin Named(page')} =
                    {t \in sess : t.plaid_transaction_id \notin Named(page')}]_vars
    /\ [][(pc = "commit" /\ page.modified # <<>> /\ obs'.committed = obs.committed + 1)
            => txns' = sess]_vars

\* the page modified the unknown "t4" and removed the stored "t3": the sync
\* returned True and of the two stored rows only "t5" is left, as it was
C32_Witness ==
    /\ feed.kind = "same"
    /\ feed.page.added = <<>>
    /\ feed.page.modified = <<Rec("t4", "acc1", [amount |-> 10, date |-> InWindow, category |-> Food])>>
    /\ feed.page.removed = {"t3"}
    /\ syncs = 1
    /\ pc = "returned"
    /\ obs.result = "True"
    /\ txns = {StoredTxn("t5", Today0)}

----------------------------------------------------------------------------
(* Properties of the page loop *)

\* the invocation met a failed page commit or a provider error
LoopAborted == Running /\ obs.failure \in {"page_commit", "api"}

\* C33: after a page's commit fails, and after a provider error on a page
\* request, the invocation is past its page loop: it issues no further page
\* request and applies no further page, whatever has_more the page reported.
C33_NoRequestAfterFailure ==
    /\ [](LoopAborted => pc \in {"cursor", "cleanup", "returned"})
    /\ [][(LoopAborted /\ obs'.failure = obs.failure) =>
            /\ obs'.requests = obs.requests
            /\ obs'.fetched = obs.fetched
            /\ obs'.committed = obs.committed
            /\ txns' = txns]_vars

\* the first page reported has_more and its commit failed: the invocation
\* returned after that one request
C33_Witness ==
    /\ pc = "returned"
    /\ obs.failure = "page_commit"
    /\ loc.has_more
    /\ obs.requests = 1
    /\ obs.committed = 0
    /\ obs.result = "False"

----------------------------------------------------------------------------
(* Properties of records without a category *)

\* txn_data.get('category') is absent, null or an empty list
NoCategory(r) == r.category.kind \in {"absent", "null"} \/ r.category.tokens = <<>>

\* C34: a page whose only record is an added record for a known account with a
\* new transaction id and no category stages a Transaction for it with
\* budget_category "Miscellaneous" and goes on to its commit; likewise a page
\* whose only record is a modified record without category for a stored
\* transaction leaves that row with budget_category "Miscellaneous" and goes on
\* to its commit.
C34_NoCategoryMeansMiscellaneous ==
    [][(PageApplied /\ page'.removed = {}) =>
        /\ \A r \in AddedOf(page') :
            (/\ page'.added = <<r>> /\ page'.modified = <<>>
             /\ Attributable(r) /\ ~StoredLocally(r) /\ NoCategory(r)) =>
                /\ pc' = "commit"
                /\ \E t \in sess' : /\ t.plaid_transaction_id = r.transaction_id
                                    /\ t.budget_category = "Miscellaneous"
        /\ \A r \in {page'.modified[i] : i \in DOMAIN page'.modified} :
            (/\ page'.added = <<>> /\ StoredLocally(r) /\ NoCategory(r)) =>
                /\ pc' = "commit"
                /\ \A t \in RowsWithId(sess', r.transaction_id) :
                        t.budget_category = "Miscellaneous"]_vars

----------------------------------------------------------------------------
(* Properties of a Transaction's owner *)

\* the Account row a Transaction points at carries the provider account id
\* the Transaction was delivered for
OwnedConsistently(tx) ==
    \A t \in tx : \E a \in accounts :
        a.id = t.account_db_id /\ a.external_id = t.plaid_account_id

\* C38: in every committed state each Transaction's account_db_id is the id of
\* an Account whose external_id is the Transaction's plaid_account_id; and a
\* page that applies (with its modified records, and its added records that
\* are treated as modified) leaves account_db_id and plaid_account_id of every
\* row it keeps as they were.
C38_TransactionKeepsItsAccount ==
    /\ [](OwnedConsistently(txns))
    /\ [][PageStaged =>
            \A t \in sess : \A u \in RowsWithId(sess', t.plaid_transaction_id) :
                /\ u.account_db_id = t.account_db_id
                /\ u.plaid_account_id = t.plaid_account_id]_vars

\* the stored "t3" of acc1 was delivered as modified under account "acc2":
\* the committed row took the record's category and kept its owner
C38_Witness ==
    /\ feed.kind = "same"
    /\ feed.page.modified = <<Rec("t3", "acc2", [amount |-> 10, date |-> InWindow, category |-> Food])>>
    /\ pc = "returned"
    /\ obs.result = "True"
    /\ \E t \in txns : /\ t.plaid_transaction_id = "t3"
                       /\ t.budget_category = "Food & Drink"
                       /\ t.account_db_id = 1
                       /\ t.plaid_account_id = "acc1"

----------------------------------------------------------------------------
(* Scenario: one item, cursor null, two upstream pages that stay the same;   *)
(* a run may be interrupted at any request or commit and is then run again   *)

ResumeRows == {StoredTxn("t3", InWindow)}

ResumeRecords ==
    {Rec(id, "acc1", pl) : id \in {"t1", "t3"},
        pl \in {[amount |-> 10, date |-> InWindow, category |-> Food],
                [amount |-> 20, date |-> Expired, category |-> Bogus]}}

\* the changes of one page: at most one added and one modified record and one
\* removed id
ResumeChanges ==
    {p \in [added : {<<>>} \cup {<<x>> : x \in ResumeRecords},
            modified : {<<>>} \cup {<<x>> : x \in ResumeRecords},
            removed : {{}, {"t1"}, {"t3"}},
            has_more : {FALSE}, next_cursor : {"c2"}] : WellFormedPage(p)}

InitResume ==
    \E p1 \in ResumeChanges : \E p2 \in ResumeChanges :
        Boot(Today0, {"item1"}, SyncAccounts, ResumeRows,
             [kind |-> "fixed",
              first |-> [p1 EXCEPT !.has_more = TRUE, !.next_cursor = "c1"],
              second |-> p2])

SpecResume == InitResume /\ [][Next]_vars

----------------------------------------------------------------------------
(* Properties of a run that is repeated after an interruption *)

\* the Transaction table after one run that applies and commits both pages of
\* the feed to the stored rows, before its cleanup
Uninterrupted(f) ==
    ApplyPage(ApplyPage(ResumeRows, 0, f.first, accounts).tx, 0, f.second, accounts).tx

\* C35: with two upstream pages that stay the same, every run that returns
\* True, after whatever interrupted runs (a page request, a page commit or the
\* cursor commit failed after some pages were committed), leaves the cursor
\* after the second page stored and the Transaction rows of one uninterrupted
\* successful run from the original cursor: the rows of both pages applied in
\* order, less the rows the cleanup deletes when the cleanup of this run
\* succeeded.
C35_RerunEqualsUninterruptedRun ==
    (feed.kind = "fixed" /\ pc = "returned" /\ obs.result = "True") =>
        /\ cursors["item1"] = feed.second.next_cursor
        /\ txns \in {Uninterrupted(feed), DeleteOld(Uninterrupted(feed), today)}
        /\ obs.cleanup = "ok" => txns = DeleteOld(Uninterrupted(feed), today)

\* the first run committed both pages and failed to store the cursor; the
\* second run started from the null cursor again, found "t1" stored, and
\* returned True
C35_Witness ==
    /\ feed.kind = "fixed"
    /\ feed.first.added = <<Rec("t1", "acc1", [amount |-> 20, date |-> Expired, category |-> Bogus])>>
    /\ feed.second.modified = <<Rec("t1", "acc1", [amount |-> 10, date |-> InWindow, category |-> Food])>>
    /\ feed.second.removed = {"t3"}
    /\ syncs = 2
    /\ obs.start_cursor = NULL
    /\ loc.added_count = 0
    /\ obs.committed = 2
    /\ pc = "returned"
    /\ obs.result = "True"
    /\ obs.cleanup = "ok"
    /\ cursors["item1"] = "c2"
    /\ \E t \in txns : txns = {t} /\ t.plaid_transaction_id = "t1" /\ t.amount = 10

----------------------------------------------------------------------------
(* Properties that join the job's price table and the overview *)

\* the investment and crypto accounts the overview lists and the job fetches for
PricedHoldings ==
    {a \in Listed(accounts) : /\ a.account_type \in {"investment", "crypto"}
                              /\ a.account_subtype # NULL}

\* the MarketPrice rows stored under the symbol the job derives for the account
JobRowsFor(a) == {mp \in prices : mp.symbol = NormalizeSymbol(a.account_subtype)}

\* the price phase of the cycle is over and it attempted the account's pair
FetchedInCycle(a) ==
    /\ job.at \in {"transactions", "done"}
    /\ InSeq(job.attempted, <<NormalizeSymbol(a.account_subtype), a.account_type>>)

\* C36: once a cycle has fetched for an investment or crypto account with
\* positive balance and the MarketPrice table holds the row the job stores for
\* it, the overview's record of the account reports that price and market
\* value = balance x that price.
C36_OverviewFindsPersistedPrice ==
    \A a \in PricedHoldings :
        FetchedInCycle(a) =>
            \A mp \in JobRowsFor(a) :
                \E d \in Overview(accounts, prices).account_details :
                    /\ d.id = a.id
                    /\ d.price_usd = {mp.price_usd}
                    /\ d.market_value_usd = a.balance * mp.price_usd

----------------------------------------------------------------------------
(* Properties that join the overview's detail list and its totals *)

\* the sum of market_value_usd over the detail records of one category
DetailTotal(details, cat) ==
    SumAmounts({[id |-> d.id, amount |-> d.market_value_usd] :
                    d \in {e \in details : e.category = cat}})

\* C37: in every overview of a non-empty Account table the detail list holds
\* exactly the accounts with positive balance, and each category total (cash,
\* investment, crypto, other, loan) is the sum of market_value_usd over the
\* detail records of that category.
C37_DetailsAndTotalsAgree ==
    (Answered /\ accounts # {}) =>
        /\ {d.id : d \in out.account_details} = {a.id : a \in Listed(accounts)}
        /\ out.cash_total_usd = DetailTotal(out.account_details, "cash")
        /\ out.investment_total_usd = DetailTotal(out.account_details, "investment")
        /\ out.crypto_total_usd = DetailTotal(out.account_details, "crypto")
        /\ out.loan_total_usd = DetailTotal(out.account_details, "loan")
        /\ out.other_assets_total_usd = DetailTotal(out.account_details, "other")

====
